---- MODULE Spec2Model ----
(***************************************************************************)
(* Model of the Yellow Pages listing collector (YP_scraper.py,             *)
(* unified_scraper.py) and of the Facebook e-mail enrichment driver        *)
(* (facebook.py, unified_scraper.py).                                      *)
(*                                                                         *)
(* The web site, the search engine and the user are the environment: what  *)
(* a selector finds, whether a click changes the URL, whether a lookup     *)
(* raises and when Ctrl+C arrives are drawn with \E from small sets.       *)
(* Texts are sequences of characters so that str.strip() is computed.      *)
(***************************************************************************)
EXTENDS Integers, Sequences, FiniteSets, TLC

(***************************************************************************)
(* Bounds of the model (not program constants).                            *)
(***************************************************************************)
\* pages the modelled site can serve (caps current_page)
MaxSitePages == 3
\* elements a listing-container selector can return on one page
MaxListings == 2
\* elements a next-control selector can return
MaxButtons == 2
\* largest max_results / max_pages argument tried
MaxLimitArg == 2
\* records the modelled site can yield in one run (caps len(results))
MaxRecords == 3
\* Ctrl+C deliveries in one run
MaxInterrupts == 1
\* rows of the record table the enrichment driver reads
MaxRows == 11
\* rows of a partly filled table that already carry an e-mail
MaxPrefilled == 1
\* lookups of one run that find an e-mail
MaxFound == 1
\* rows of the tables with no e-mail at all, on which the save cadence is followed
MaxCadenceRows == 21

(***************************************************************************)
(* Program constants.                                                      *)
(***************************************************************************)
\* len(listing_selectors)
NumListingSelectors == 6
\* len(name_selectors)
NumNameSelectors == 6
\* len(next_button_selectors)
NumNextSelectors == 5
\* auto-save period of extract_listings: len(results) % 100 == 0
CollectSaveEvery == 100
\* auto-save period of the enrichment loop: (idx + 1) % 10 == 0
SaveEvery == 10

(***************************************************************************)
(* Texts and str.strip().                                                  *)
(***************************************************************************)
Whitespace == {" ", "\n", "\t"}

RECURSIVE LStrip(_)
LStrip(t) ==
    IF t = <<>> THEN <<>>
    ELSE IF Head(t) \in Whitespace THEN LStrip(Tail(t)) ELSE t

RECURSIVE RStrip(_)
RStrip(t) ==
    IF t = <<>> THEN <<>>
    ELSE IF t[Len(t)] \in Whitespace THEN RStrip(SubSeq(t, 1, Len(t) - 1)) ELSE t

\* str.strip(): leading and trailing whitespace removed
Strip(t) == RStrip(LStrip(t))

\* the initial value of business_name, also the "no name" marker
Unknown == <<"U", "n", "k", "n", "o", "w", "n">>

\* the initial value of phone_number
NotAvailable == "Not Available"

\* visible texts a name element of the site can carry
NameTexts == { <<>>, <<" ", "\n">>, <<" ", "A", "\n">> }

\* phone values the three phone strategies can produce for a listing
PhoneOutcomes == { "fail", "(555) 123-4567" }

\* python truthiness of max_results / max_pages: None and 0 both read as "not set"
IsSet(limit) == limit # 0

VARIABLES
    \* ---- collector: extract_listings and main of YP_scraper.py
    pc,                 \* position in extract_listings / main
    max_results,        \* argument; 0 stands for None (or 0): not set
    max_pages,          \* argument; 0 stands for None (or 0): not set
    results,            \* the list of records
    current_page,       \* page counter
    sel,                \* index of the selector tried now in the current chain
    listings,           \* len(listings) on the current page
    idx,                \* enumerate(listings, 1) index of the current listing
    business_name,      \* local of the listing loop
    next_button_found,  \* local of the pagination step
    saved,              \* the record table save_to_excel wrote last
    savedOnce,          \* save_to_excel wrote a file
    \* ---- observers of the collector (not program state)
    iterations,         \* page-extraction iterations started
    clickedAtLimit,     \* a next control was activated with len(results) >= max_results
    urlUnchanged,       \* a click of this pagination step left the URL unchanged
    stop,               \* which branch ended extract_listings ("" while it runs)
    interrupts,         \* Ctrl+C delivered so far
    swallowed,          \* a Ctrl+C was caught by a bare except and dropped
    \* ---- enrichment driver: process_excel_file of facebook.py
    df,                 \* the DataFrame: rows [name, phone, email]
    file,               \* the record table on disk, as cells
    row,                \* idx + 1: 1-based position of the row visited now
    \* ---- observers of the enrichment driver (not program state)
    df0,                \* the DataFrame as read_excel returned it
    lookups,            \* search_google calls made in this run
    unsaved,            \* rows given a lookup outcome since the last write to disk
    writes,             \* the writes to disk of this run: [at, kind]
    writeFailed,        \* a to_excel call raised in this run
    caught,             \* <<row, where>> of each exception a lookup of this run caught
    \* ---- one listing element, for the business-name chain on its own
    scope,              \* what each name selector finds in the listing
    tried,              \* the name selectors tried, in the order tried
    \* ---- one search_google call, from the result links on
    facebook_links,     \* the href of each a[href*='facebook.com'] element, in page order
    facebook_url,       \* what search_google returns
    \* ---- one extract_email_from_facebook call, from the loaded profile page on
    elements,           \* what find_elements gives for each e-mail selector
    page_source,        \* driver.page_source
    returned,           \* what extract_email_from_facebook returns
    via,                \* the step that produced it ("" while the call runs)
    \* ---- the three scripts from start to exit: main / process_excel_file
    program,            \* which script runs: "yp", "facebook" or "unified"
    browsers,           \* the browser session of each scraper object: none, open, closed
    excel_file,         \* main of unified_scraper.py: the saved file's name, "" for None
    screenshot,         \* search_error.png was written
    failure,            \* the exception perform_search raised to main ("" if none)
    phase2,             \* main of unified_scraper.py called process_excel_for_emails
    \* ---- the phone strategies of extract_listings on one listing element
    phone_scope,        \* what the listing holds: candidate texts, tel links, markup
    phone_number,       \* local of the listing loop
    phone_found,        \* local of the listing loop
    strategies,         \* the strategies run, in the order run
    \* ---- both extract_listings on the same pages, one page at a time
    served,             \* the result page served last: its listings and next controls
    yp,                 \* extract_listings of YP_scraper.py: results, page, clicks, stop
    unified             \* extract_listings of unified_scraper.py: the same

args == <<max_results, max_pages>>
locals == <<current_page, sel, listings, idx, business_name, next_button_found>>
table == <<saved, savedOnce>>
keys == <<interrupts, swallowed>>

observed == <<iterations, clickedAtLimit, urlUnchanged>>

cvars == <<pc, args, results, locals, table, observed, stop, keys>>

evars == <<df, file, row, df0, lookups, unsaved, writes, writeFailed, caught>>

nvars == <<scope, tried>>
gvars == <<facebook_links, facebook_url>>
xvars == <<elements, page_source, returned, via>>

mvars == <<program, browsers, excel_file, screenshot, failure, phase2>>
hvars == <<phone_scope, phone_number, phone_found, strategies>>
rvars == <<served, yp, unified>>

pvars == <<nvars, gvars, xvars, mvars, hvars, rvars>>

vars == <<cvars, evars, pvars>>

(***************************************************************************)
(* Collector: YellowPagesScraper.extract_listings and main.                *)
(***************************************************************************)
\* the check with > for >=
ResultLimitReachedLate(res, limit) == IsSet(limit) /\ Len(res) > limit

\* "if max_results and len(results) >= max_results"
ResultLimitReached(res, limit) == IsSet(limit) /\ Len(res) >= limit

\* the check with > for >=
PageLimitReachedLate(page, limit) == IsSet(limit) /\ page > limit

\* "if max_pages and current_page >= max_pages"
PageLimitReached(page, limit) == IsSet(limit) /\ page >= limit

\* "if business_name: break" - the chain stops on a non-empty stripped text
NameFound(name) == name # <<>>

\* "if business_name == "Unknown": ... continue"
NameMissing(name) == name = Unknown

\* phone_number after the three strategies: the first success, else the sentinel
PhoneOf(a, b, c) ==
    IF a # "fail" THEN a
    ELSE IF b # "fail" THEN b
    ELSE IF c # "fail" THEN c
    ELSE NotAvailable

\* what one button of a next-control selector does when it is reached
ButtonKinds == {"disabled", "same_url", "new_url"}

ButtonLists == UNION { [1..n -> ButtonKinds] : n \in 0..MaxButtons }

\* the inner loop over next_buttons: controls activated, and whether one changed the URL
RECURSIVE WalkButtons(_)
WalkButtons(bs) ==
    IF bs = <<>> THEN [clicked |-> 0, found |-> FALSE]
    ELSE IF Head(bs) = "disabled" THEN [clicked |-> 0, found |-> FALSE]
    ELSE IF Head(bs) = "new_url" THEN [clicked |-> 1, found |-> TRUE]
    ELSE LET r == WalkButtons(Tail(bs))
         IN  [clicked |-> r.clicked + 1, found |-> r.found]

\* save_to_excel: writes the table unless there is nothing to save or both writes fail
SaveToExcel(res, ok) == res # <<>> /\ ok

\* the locals of extract_listings at a position of the loop
Goto(p, page, s, n, i, name, found) ==
    /\ pc' = p
    /\ current_page' = page
    /\ sel' = s
    /\ listings' = n
    /\ idx' = i
    /\ business_name' = name
    /\ next_button_found' = found
    /\ stop' = stop

\* "return results" / "break" out of the page loop: the locals go out of scope
Return(reason) ==
    /\ pc' = "returned"
    /\ stop' = reason
    /\ sel' = 1
    /\ listings' = 0
    /\ idx' = 0
    /\ business_name' = Unknown
    /\ next_button_found' = FALSE
    /\ current_page' = current_page

\* the variables of the name chain taken on its own, when it is not what is run
NoListingScope ==
    /\ scope = <<>>
    /\ tried = <<>>

\* the variables of one lookup taken on its own, when it is not what is run
NoLookup ==
    /\ facebook_links = <<>>
    /\ facebook_url = <<>>

\* the variables of one profile scan taken on its own, when it is not what is run
NoScan ==
    /\ elements = <<>>
    /\ page_source = <<>>
    /\ returned = <<>>
    /\ via = ""

\* the variables of a whole script run, when single functions are what is run
NoProgram ==
    /\ program = ""
    /\ browsers = <<>>
    /\ excel_file = ""
    /\ screenshot = FALSE
    /\ failure = ""
    /\ phase2 = FALSE

\* the variables of the phone strategies taken on their own, when they are not what is run
NoPhone ==
    /\ phone_scope = <<>>
    /\ phone_number = <<>>
    /\ phone_found = FALSE
    /\ strategies = <<>>

\* the variables of the two collectors run side by side, when they are not what is run
NoPages ==
    /\ served = <<>>
    /\ yp = <<>>
    /\ unified = <<>>

InitCollect ==
    /\ pc = "page_top"
    /\ max_results \in 0..MaxLimitArg
    /\ max_pages \in 0..MaxLimitArg
    /\ results = <<>>
    /\ current_page = 1
    /\ sel = 1
    /\ listings = 0
    /\ idx = 0
    /\ business_name = Unknown
    /\ next_button_found = FALSE
    /\ saved = <<>>
    /\ savedOnce = FALSE
    /\ iterations = 0
    /\ clickedAtLimit = FALSE
    /\ urlUnchanged = FALSE
    /\ stop = ""
    /\ interrupts = 0
    /\ swallowed = FALSE
    /\ NoListingScope
    /\ NoProgram
    /\ NoPhone
    /\ NoPages
    /\ NoLookup
    /\ NoScan
    /\ df = <<>>
    /\ file = <<>>
    /\ row = 0
    /\ df0 = <<>>
    /\ lookups = 0
    /\ unsaved = 0
    /\ writes = <<>>
    /\ writeFailed = FALSE
    /\ caught = {}

\* "while True:" - a page-extraction iteration starts; listings = []
StartPage ==
    /\ pc = "page_top"
    /\ Goto("find_listings", current_page, 1, 0, 0, Unknown, FALSE)
    /\ iterations' = iterations + 1
    /\ urlUnchanged' = FALSE
    /\ UNCHANGED <<pvars, evars, args, results, table, clickedAtLimit, keys>>

\* the page without listings treated as a page to leave: on to the next control
AfterListingSelectorNavigates(n) ==
    IF n > 0 THEN Goto("listing", current_page, 1, n, 1, Unknown, FALSE)
    ELSE IF sel = NumListingSelectors
         THEN Goto("check_pages", current_page, 1, 0, 0, Unknown, FALSE)
         ELSE Goto("find_listings", current_page, sel + 1, 0, 0, Unknown, FALSE)

\* after the listing selector tried now returned n elements (0 too when it raised)
AfterListingSelector(n) ==
    IF n > 0 THEN Goto("listing", current_page, 1, n, 1, Unknown, FALSE)
    ELSE IF sel = NumListingSelectors THEN Return("no_listings")
    ELSE Goto("find_listings", current_page, sel + 1, 0, 0, Unknown, FALSE)

\* one listing-container selector: find_elements returns n elements
FindListings ==
    /\ pc = "find_listings"
    /\ \E n \in 0..MaxListings :
          /\ Len(results) + n <= MaxRecords
          /\ AfterListingSelector(n)
    /\ UNCHANGED <<pvars, evars, args, results, table, observed, keys>>

\* find_elements raises: the bare "except: continue" goes to the next selector
FindListingsRaises ==
    /\ pc = "find_listings"
    /\ AfterListingSelector(0)
    /\ UNCHANGED <<pvars, evars, args, results, table, observed, keys>>

\* "for idx, listing in enumerate(listings, 1):" with the max_results check
NextListing ==
    /\ pc = "listing"
    /\ IF idx > listings
       THEN Goto("check_pages", current_page, 1, 0, 0, Unknown, FALSE)
       ELSE IF ResultLimitReached(results, max_results)
            THEN Return("max_results")
            ELSE Goto("name", current_page, 1, listings, idx, Unknown, FALSE)
    /\ UNCHANGED <<pvars, evars, args, results, table, observed, keys>>

\* the chain without its break: every selector is tried and the last match stays
AfterNameSelectorNoBreak(name, matched) ==
    IF sel = NumNameSelectors
    THEN Goto("name_check", current_page, 1, listings, idx, name, FALSE)
    ELSE Goto("name", current_page, sel + 1, listings, idx, name, FALSE)

\* after the name selector tried now left business_name = name
AfterNameSelector(name, matched) ==
    IF (matched /\ NameFound(name)) \/ sel = NumNameSelectors
    THEN Goto("name_check", current_page, 1, listings, idx, name, FALSE)
    ELSE Goto("name", current_page, sel + 1, listings, idx, name, FALSE)

\* one name selector matches an element: business_name = name_element.text.strip()
NameSelectorMatches ==
    /\ pc = "name"
    /\ \E t \in NameTexts : AfterNameSelector(Strip(t), TRUE)
    /\ UNCHANGED <<pvars, evars, args, results, table, observed, keys>>

\* one name selector matches nothing: "except NoSuchElementException: continue"
NameSelectorMisses ==
    /\ pc = "name"
    /\ AfterNameSelector(business_name, FALSE)
    /\ UNCHANGED <<pvars, evars, args, results, table, observed, keys>>

\* any other exception while a listing is processed (the scroll, a stale element,
\* the text of the name element): control goes to the per-listing handler
ListingRaises ==
    /\ pc = "name"
    /\ Goto("listing_except", current_page, 1, listings, idx, Unknown, FALSE)
    /\ UNCHANGED <<pvars, evars, args, results, table, observed, keys>>

\* the handler taken as the outer one: "except Exception as e: ... return results"
AfterListingErrorReturns ==
    Return("error")

\* the per-listing handler: "except Exception as e: continue" - on to the next listing
AfterListingError ==
    Goto("listing", current_page, 1, listings, idx + 1, Unknown, FALSE)

\* the handler of the listing loop runs
ListingHandler ==
    /\ pc = "listing_except"
    /\ AfterListingError
    /\ UNCHANGED <<pvars, evars, args, results, table, observed, keys>>

\* "if business_name == "Unknown": ... continue"
NameCheck ==
    /\ pc = "name_check"
    /\ IF NameMissing(business_name)
       THEN Goto("listing", current_page, 1, listings, idx + 1, Unknown, FALSE)
       ELSE Goto("phone", current_page, 1, listings, idx, business_name, FALSE)
    /\ UNCHANGED <<pvars, evars, args, results, table, observed, keys>>

\* the append that leaves out a record equal to one already collected
AppendRecordDeduplicating(phone, writeOk) ==
    LET record == [name |-> business_name, phone |-> phone]
        known == \E i \in 1..Len(results) : results[i] = record
        grown == IF ~NameMissing(business_name) /\ ~known
                 THEN Append(results, record)
                 ELSE results
        autosave == /\ ~NameMissing(business_name)
                    /\ Len(grown) % CollectSaveEvery = 0
                    /\ SaveToExcel(grown, writeOk)
    IN  /\ results' = grown
        /\ saved' = IF autosave THEN grown ELSE saved
        /\ savedOnce' = (savedOnce \/ autosave)
        /\ Goto("listing", current_page, 1, listings, idx + 1, Unknown, FALSE)

\* "if business_name != "Unknown": results.append(...)", the auto-save every 100
\* records, and on to the next listing
AppendRecord(phone, writeOk) ==
    LET grown == IF ~NameMissing(business_name)
                 THEN Append(results, [name |-> business_name, phone |-> phone])
                 ELSE results
        autosave == /\ ~NameMissing(business_name)
                    /\ Len(grown) % CollectSaveEvery = 0
                    /\ SaveToExcel(grown, writeOk)
    IN  /\ results' = grown
        /\ saved' = IF autosave THEN grown ELSE saved
        /\ savedOnce' = (savedOnce \/ autosave)
        /\ Goto("listing", current_page, 1, listings, idx + 1, Unknown, FALSE)

\* the three phone strategies, then the record is appended
ExtractPhone ==
    /\ pc = "phone"
    /\ \E a \in PhoneOutcomes, b \in PhoneOutcomes, c \in PhoneOutcomes, w \in BOOLEAN :
          AppendRecord(PhoneOf(a, b, c), w)
    /\ UNCHANGED <<pvars, evars, args, iterations, clickedAtLimit, urlUnchanged, keys>>

\* "if max_pages and current_page >= max_pages: break"
CheckMaxPages ==
    /\ pc = "check_pages"
    /\ IF PageLimitReached(current_page, max_pages)
       THEN Return("max_pages")
       ELSE Goto("next", current_page, 1, 0, 0, Unknown, FALSE)
    /\ UNCHANGED <<pvars, evars, args, results, table, observed, keys>>

\* the walk without its final break: with no next page the same page is read again
AfterNextSelectorRetries(found) ==
    IF found THEN Goto("page_top", current_page + 1, 1, 0, 0, Unknown, TRUE)
    ELSE IF sel = NumNextSelectors
         THEN Goto("page_top", current_page, 1, 0, 0, Unknown, FALSE)
         ELSE Goto("next", current_page, sel + 1, 0, 0, Unknown, FALSE)

\* after the next selector tried now: the next page, the next selector, or stop
AfterNextSelector(found) ==
    IF found THEN Goto("page_top", current_page + 1, 1, 0, 0, Unknown, TRUE)
    ELSE IF sel = NumNextSelectors THEN Return("no_next")
    ELSE Goto("next", current_page, sel + 1, 0, 0, Unknown, FALSE)

\* one next-control selector: its buttons are walked, each non-disabled one is clicked
NextSelector ==
    /\ pc = "next"
    /\ \E bs \in ButtonLists :
          /\ \A i \in 1..Len(bs) : bs[i] = "new_url" => current_page < MaxSitePages
          /\ LET r == WalkButtons(bs)
             IN  /\ clickedAtLimit' =
                       (clickedAtLimit \/
                          (r.clicked > 0 /\ ResultLimitReached(results, max_results)))
                 /\ urlUnchanged' =
                       (urlUnchanged \/ r.clicked > (IF r.found THEN 1 ELSE 0))
                 /\ AfterNextSelector(r.found)
    /\ UNCHANGED <<pvars, evars, args, results, table, iterations, keys>>

\* find_elements or get_attribute raises: "except Exception: continue"
NextSelectorRaises ==
    /\ pc = "next"
    /\ AfterNextSelector(FALSE)
    /\ UNCHANGED <<pvars, evars, args, results, table, observed, keys>>

\* Ctrl+C outside a bare except: "except KeyboardInterrupt: ... return results"
InterruptPropagates ==
    /\ pc \in {"page_top", "listing", "name", "name_check", "phone", "check_pages", "next"}
    /\ interrupts < MaxInterrupts
    /\ interrupts' = interrupts + 1
    /\ Return("interrupt")
    /\ UNCHANGED <<pvars, evars, args, results, table, observed, swallowed>>

\* Ctrl+C inside find_elements of a listing selector: the bare "except: continue" drops it
InterruptInFindListings ==
    /\ pc = "find_listings"
    /\ interrupts < MaxInterrupts
    /\ interrupts' = interrupts + 1
    /\ swallowed' = TRUE
    /\ AfterListingSelector(0)
    /\ UNCHANGED <<pvars, evars, args, results, table, observed>>

\* Ctrl+C inside a phone strategy: its bare except drops it and the strategy fails
InterruptInPhone ==
    /\ pc = "phone"
    /\ interrupts < MaxInterrupts
    /\ interrupts' = interrupts + 1
    /\ swallowed' = TRUE
    /\ \E hit \in 1..3, a \in PhoneOutcomes, b \in PhoneOutcomes, c \in PhoneOutcomes,
          w \in BOOLEAN :
          AppendRecord(PhoneOf(IF hit = 1 THEN "fail" ELSE a,
                               IF hit = 2 THEN "fail" ELSE b,
                               IF hit = 3 THEN "fail" ELSE c), w)
    /\ UNCHANGED <<pvars, evars, args, iterations, clickedAtLimit, urlUnchanged>>

\* main: "if results: save_to_excel(results, job_type, location)"
MainSave ==
    /\ pc = "returned"
    /\ \E w \in BOOLEAN :
          /\ saved' = IF SaveToExcel(results, w) THEN results ELSE saved
          /\ savedOnce' = (savedOnce \/ SaveToExcel(results, w))
    /\ pc' = "finally"
    /\ UNCHANGED <<pvars, evars, args, results, locals, observed, stop, keys>>

\* main: "finally: ... scraper.close()"
Close ==
    /\ pc = "finally"
    /\ pc' = "done"
    /\ UNCHANGED <<pvars, evars, args, results, locals, table, observed, stop, keys>>

NextCollect ==
    \/ StartPage
    \/ FindListings
    \/ FindListingsRaises
    \/ NextListing
    \/ NameSelectorMatches
    \/ NameSelectorMisses
    \/ ListingRaises
    \/ ListingHandler
    \/ NameCheck
    \/ ExtractPhone
    \/ CheckMaxPages
    \/ NextSelector
    \/ NextSelectorRaises
    \/ InterruptPropagates
    \/ InterruptInFindListings
    \/ InterruptInPhone
    \/ MainSave
    \/ Close

SpecCollect == InitCollect /\ [][NextCollect]_vars

\* extract_listings called without max_results and max_pages
InitUnbounded ==
    /\ InitCollect
    /\ max_results = 0
    /\ max_pages = 0

\* the unbounded runs, which run on: a step that can be taken is taken
SpecUnbounded == InitUnbounded /\ [][NextCollect]_vars /\ WF_vars(NextCollect)

(***************************************************************************)
(* The business-name chain of extract_listings on one listing element      *)
(* whose content is known: what each name selector finds in it.            *)
(***************************************************************************)
\* find_element raises NoSuchElementException for the selector
Missing == "missing"

\* what a name selector can find: no element, or an element with one of three texts
ElementKinds == {Missing, "empty", "blank", "named"}

\* the letter the element found by selector k shows when it carries a name
NameLetters == <<"A", "B", "C", "D", "E", "F">>

\* name_element.text of the element selector k finds
ElementText(k, kind) ==
    IF kind = "empty" THEN <<>>
    ELSE IF kind = "blank" THEN <<" ", "\n">>
    ELSE <<" ", NameLetters[k], "\n">>

\* the variables of the enrichment driver when it is not what is run
NoDriver ==
    /\ df = <<>>
    /\ file = <<>>
    /\ row = 0
    /\ df0 = <<>>
    /\ lookups = 0
    /\ unsaved = 0
    /\ writes = <<>>
    /\ writeFailed = FALSE
    /\ caught = {}

\* extract_listings at the top of the name chain of the first listing of page 1
InitNameChain ==
    /\ pc = "name"
    /\ max_results = 0
    /\ max_pages = 0
    /\ results = <<>>
    /\ current_page = 1
    /\ sel = 1
    /\ listings = 1
    /\ idx = 1
    /\ business_name = Unknown
    /\ next_button_found = FALSE
    /\ saved = <<>>
    /\ savedOnce = FALSE
    /\ iterations = 1
    /\ clickedAtLimit = FALSE
    /\ urlUnchanged = FALSE
    /\ stop = ""
    /\ interrupts = 0
    /\ swallowed = FALSE
    /\ NoDriver
    /\ scope \in [1..NumNameSelectors -> ElementKinds]
    /\ tried = <<>>
    /\ NoLookup
    /\ NoProgram
    /\ NoPhone
    /\ NoPages
    /\ NoScan

\* "for name_sel in name_selectors:" - one selector is tried on the listing
TryNameSelector ==
    /\ pc = "name"
    /\ tried' = Append(tried, sel)
    /\ IF scope[sel] = Missing
       THEN AfterNameSelector(business_name, FALSE)
       ELSE AfterNameSelector(Strip(ElementText(sel, scope[sel])), TRUE)
    /\ UNCHANGED <<scope, gvars, xvars, mvars, hvars, rvars, evars, args, results, table, observed, keys>>

NextNameChain == TryNameSelector

SpecNameChain == InitNameChain /\ [][NextNameChain]_vars

(***************************************************************************)
(* Enrichment driver: process_excel_file (facebook.py) and                 *)
(* process_excel_for_emails (unified_scraper.py), which are the same loop. *)
(***************************************************************************)
\* the sentinel string the driver writes for "no email"
NaN == "NaN"

\* a missing value of the DataFrame (float nan), as read_excel gives for an empty cell
NaNFloat == "float(nan)"

\* the cell of a table that has no Email column
NoColumn == "<no Email column>"

\* an e-mail already in the table, and one a lookup of this run finds
OldEmail == "old@biz.com"
NewEmail == "new@biz.com"

\* pd.read_excel on one cell: empty cells and the default NA strings become nan
ReadExcelCell(c) == IF c \in {"", "NaN"} THEN NaNFloat ELSE c

\* df.to_excel on one value: nan is written as an empty cell
ToExcelCell(v) == IF v = NaNFloat THEN "" ELSE v

\* pd.read_excel, then "if 'Email' not in df.columns: df['Email'] = "NaN""
ReadExcel(f) ==
    [i \in 1..Len(f) |->
        [name  |-> f[i].name,
         phone |-> f[i].phone,
         email |-> IF f[i].email = NoColumn THEN NaN ELSE ReadExcelCell(f[i].email)]]

\* df.to_excel(excel_path, index=False, sheet_name='Results')
ToExcel(d) ==
    [i \in 1..Len(d) |->
        [name |-> d[i].name, phone |-> d[i].phone, email |-> ToExcelCell(d[i].email)]]

\* the test turned round: the rows without an e-mail are the ones skipped
HasEmailInverted(e) == e = NaNFloat \/ e = NaN

\* "pd.notna(row['Email']) and row['Email'] != "NaN""
HasEmail(e) == e # NaNFloat /\ e # NaN

\* the test on idx for idx + 1
AutoSaveDueOnIdx(position) == (position - 1) % SaveEvery = 0

\* "if (idx + 1) % 10 == 0"
AutoSaveDue(position) == position % SaveEvery = 0

\* the write at label idx + 1: the next row, or a new row after the last one
SetEmailAtNextLabel(d, position, value) ==
    IF position + 1 <= Len(d)
    THEN [d EXCEPT ![position + 1].email = value]
    ELSE Append(d, [name |-> NaNFloat, phone |-> NaNFloat, email |-> value])

\* df.at[idx, 'Email'] = value
SetEmail(d, position, value) == [d EXCEPT ![position].email = value]

\* the rows of the tables the driver is run on
NameOfRow(i) == <<"biz", i>>
PhoneOfRow(i) == IF i % 3 = 0 THEN NotAvailable ELSE "(555) 123-4567"

\* the Email columns of the tables read: no column at all, every row filled, or
\* up to MaxPrefilled rows filled and "NaN" (written by an earlier run) in the others
EmailColumns(n) ==
    { [i \in 1..n |-> NoColumn], [i \in 1..n |-> OldEmail] } \cup
    { [i \in 1..n |-> IF i \in filled THEN OldEmail ELSE NaN] :
        filled \in { f \in SUBSET (1..n) : Cardinality(f) <= MaxPrefilled } }

\* rows of d that a lookup of this run gave an e-mail
Found(d) == Cardinality({ i \in 1..Len(d) : d[i].email = NewEmail })

\* the table with the rows 1..n and the given Email column
TableOf(n, cells) ==
    [i \in 1..n |-> [name |-> NameOfRow(i), phone |-> PhoneOfRow(i), email |-> cells[i]]]

\* process_excel_file up to the loop: the table f is read, the browser is started
EnrichStart(f) ==
    /\ pc = "e_visit"
    /\ max_results = 0
    /\ max_pages = 0
    /\ results = <<>>
    /\ current_page = 1
    /\ sel = 1
    /\ listings = 0
    /\ idx = 0
    /\ business_name = Unknown
    /\ next_button_found = FALSE
    /\ saved = <<>>
    /\ savedOnce = FALSE
    /\ iterations = 0
    /\ clickedAtLimit = FALSE
    /\ urlUnchanged = FALSE
    /\ stop = ""
    /\ interrupts = 0
    /\ swallowed = FALSE
    /\ NoListingScope
    /\ NoProgram
    /\ NoPhone
    /\ NoPages
    /\ NoLookup
    /\ NoScan
    /\ file = f
    /\ df = ReadExcel(f)
    /\ df0 = ReadExcel(f)
    /\ row = 1
    /\ lookups = 0
    /\ unsaved = 0
    /\ writes = <<>>
    /\ writeFailed = FALSE
    /\ caught = {}

InitEnrich ==
    \E n \in 0..MaxRows : \E cells \in EmailColumns(n) : EnrichStart(TableOf(n, cells))

\* the runs on longer tables in which no row carries an e-mail yet
InitCadence ==
    \E n \in 0..MaxCadenceRows :
       \E cells \in { [i \in 1..n |-> NoColumn], [i \in 1..n |-> NaN] } :
          EnrichStart(TableOf(n, cells))

\* "for idx, row in df.iterrows():" with the skip of rows that have an email
Visit ==
    /\ pc = "e_visit"
    /\ IF row > Len(df)
       THEN /\ pc' = "e_final_save"
            /\ UNCHANGED <<row, lookups>>
       ELSE IF HasEmail(df[row].email)
            THEN /\ row' = row + 1
                 /\ UNCHANGED <<pc, lookups>>
            ELSE /\ pc' = "e_search"
                 /\ lookups' = lookups + 1
                 /\ row' = row
    /\ UNCHANGED <<pvars, caught, args, results, locals, table, observed, stop, keys,
                   df, file, df0, unsaved, writes, writeFailed>>

\* scraper.search_google(business_name): a URL, or None (also on any exception)
SearchGoogle ==
    /\ pc \in {"e_search", "e_search_next"}
    /\ \E found \in BOOLEAN :
          IF found
          THEN /\ pc' = "e_extract"
               /\ UNCHANGED <<df, unsaved>>
          ELSE /\ df' = SetEmail(df, row, NaN)
               /\ unsaved' = unsaved + 1
               /\ pc' = "e_autosave"
    /\ UNCHANGED <<pvars, caught, args, results, locals, table, observed, stop, keys,
                   file, row, df0, lookups, writes, writeFailed>>

\* the result of the extraction dropped: the loop goes on without the assignment
ExtractEmailWithoutWrite ==
    /\ pc \in {"e_extract", "e_extract_next"}
    /\ pc' = "e_autosave"
    /\ UNCHANGED <<pvars, caught, args, results, locals, table, observed, stop, keys,
                   df, unsaved, file, row, df0, lookups, writes, writeFailed>>

\* scraper.extract_email_from_facebook(facebook_url): an address, or "NaN"
ExtractEmail ==
    /\ pc \in {"e_extract", "e_extract_next"}
    /\ \E email \in {NaN, NewEmail} :
          /\ email = NewEmail => Found(df) < MaxFound
          /\ df' = SetEmail(df, row, email)
    /\ unsaved' = unsaved + 1
    /\ pc' = "e_autosave"
    /\ UNCHANGED <<pvars, caught, args, results, locals, table, observed, stop, keys,
                   file, row, df0, lookups, writes, writeFailed>>

\* one df.to_excel call: the table is written, or the call raises
WriteTable(kind, ok) ==
    IF ok
    THEN /\ file' = ToExcel(df)
         /\ unsaved' = 0
         /\ writes' = Append(writes, [at |-> IF row > Len(df) THEN Len(df) ELSE row,
                                     kind |-> kind])
         /\ writeFailed' = writeFailed
    ELSE /\ writeFailed' = TRUE
         /\ UNCHANGED <<file, unsaved, writes>>

\* "if (idx + 1) % 10 == 0:" with the write in try / except Exception
AutoSave ==
    /\ pc = "e_autosave"
    /\ IF AutoSaveDue(row)
       THEN \E ok \in BOOLEAN : WriteTable("auto", ok)
       ELSE UNCHANGED <<file, unsaved, writes, writeFailed>>
    /\ row' = row + 1
    /\ pc' = "e_visit"
    /\ UNCHANGED <<pvars, caught, args, results, locals, table, observed, stop, keys,
                   df, df0, lookups>>

\* the final df.to_excel after the loop; if it raises, the exception leaves the function
FinalSave ==
    /\ pc = "e_final_save"
    /\ \E ok \in BOOLEAN : WriteTable("final", ok)
    /\ pc' = "e_close"
    /\ UNCHANGED <<pvars, caught, args, results, locals, table, observed, stop, keys,
                   df, row, df0, lookups>>

\* Ctrl+C in the try body outside a bare except: the record in progress is abandoned
EnrichInterruptPropagates ==
    /\ pc \in {"e_visit", "e_search", "e_search_next", "e_search_failed", "e_extract",
               "e_extract_next", "e_extract_failed", "e_autosave", "e_final_save"}
    /\ interrupts < MaxInterrupts
    /\ interrupts' = interrupts + 1
    /\ pc' = "e_interrupted"
    /\ UNCHANGED <<pvars, caught, args, results, locals, table, observed, stop,
                   swallowed, evars>>

\* Ctrl+C inside the selector loop of extract_email_from_facebook: the bare
\* "except: continue" drops it and the lookup goes on
InterruptInExtract ==
    /\ pc \in {"e_extract", "e_extract_next"}
    /\ interrupts < MaxInterrupts
    /\ interrupts' = interrupts + 1
    /\ swallowed' = TRUE
    /\ UNCHANGED <<pvars, pc, args, results, locals, table, observed, stop,
                   evars>>

\* "except KeyboardInterrupt:" - the table is written in try / except Exception
InterruptSave ==
    /\ pc = "e_interrupted"
    /\ \E ok \in BOOLEAN : WriteTable("interrupt", ok)
    /\ pc' = "e_close"
    /\ UNCHANGED <<pvars, caught, args, results, locals, table, observed, stop, keys,
                   df, row, df0, lookups>>

\* "finally: scraper.close()"
EnrichClose ==
    /\ pc = "e_close"
    /\ pc' = "e_done"
    /\ UNCHANGED <<pvars, caught, args, results, locals, table, observed, stop, keys,
                   evars>>

NextEnrich ==
    \/ Visit
    \/ SearchGoogle
    \/ ExtractEmail
    \/ AutoSave
    \/ FinalSave
    \/ EnrichInterruptPropagates
    \/ InterruptInExtract
    \/ InterruptSave
    \/ EnrichClose

SpecEnrich == InitEnrich /\ [][NextEnrich]_vars

SpecCadence == InitCadence /\ [][NextEnrich]_vars

(***************************************************************************)
(* The same driver with the exceptions of the lookups made explicit.       *)
(***************************************************************************)
\* rows of the tables on which the exceptions are followed
MaxFailRows == 2

\* exceptions navigation and element lookup raise (all subclasses of Exception)
Failures == {"TimeoutException", "NoSuchElementException", "WebDriverException"}

\* a handler that names TimeoutException only
HandlesTimeoutOnly(exc) == exc = "TimeoutException"

\* "except Exception as e:" of search_google and of extract_email_from_facebook
Handles(exc) == exc \in Failures

InitFailures ==
    \E n \in 0..MaxFailRows : \E cells \in EmailColumns(n) : EnrichStart(TableOf(n, cells))

\* an exception in the lookup of one locator, caught next to it: "except
\* TimeoutException: continue" of the search-input loop, "except: continue" of the
\* e-mail selector loop; the function goes on with its next locator
LocatorRaises ==
    /\ pc \in {"e_search", "e_extract"}
    /\ pc' = IF pc = "e_search" THEN "e_search_next" ELSE "e_extract_next"
    /\ caught' = caught \cup {<<row, "locator">>}
    /\ UNCHANGED <<pvars, args, results, locals, table, observed, stop, keys,
                   df, file, row, df0, lookups, unsaved, writes, writeFailed>>

\* an exception elsewhere in search_google (driver.get, click, send_keys, the wait for
\* the result links, find_elements, get_attribute) reaches its outer handler
SearchGoogleRaises ==
    /\ pc \in {"e_search", "e_search_next"}
    /\ \E exc \in Failures :
          pc' = IF Handles(exc) THEN "e_search_failed" ELSE "e_raised"
    /\ caught' = caught \cup {<<row, "search">>}
    /\ UNCHANGED <<pvars, args, results, locals, table, observed, stop, keys,
                   df, file, row, df0, lookups, unsaved, writes, writeFailed>>

\* the handler of search_google returns None: "if not facebook_url: df.at[...] = "NaN""
SearchFailed ==
    /\ pc = "e_search_failed"
    /\ df' = SetEmail(df, row, NaN)
    /\ unsaved' = unsaved + 1
    /\ pc' = "e_autosave"
    /\ UNCHANGED <<pvars, caught, args, results, locals, table, observed, stop, keys,
                   file, row, df0, lookups, writes, writeFailed>>

\* an exception elsewhere in extract_email_from_facebook (driver.get, page_source)
\* reaches its outer handler
ExtractEmailRaises ==
    /\ pc \in {"e_extract", "e_extract_next"}
    /\ \E exc \in Failures :
          pc' = IF Handles(exc) THEN "e_extract_failed" ELSE "e_raised"
    /\ caught' = caught \cup {<<row, "extract">>}
    /\ UNCHANGED <<pvars, args, results, locals, table, observed, stop, keys,
                   df, file, row, df0, lookups, unsaved, writes, writeFailed>>

\* the handler of extract_email_from_facebook returns "NaN": df.at[idx, 'Email'] = "NaN"
ExtractFailed ==
    /\ pc = "e_extract_failed"
    /\ df' = SetEmail(df, row, NaN)
    /\ unsaved' = unsaved + 1
    /\ pc' = "e_autosave"
    /\ UNCHANGED <<pvars, caught, args, results, locals, table, observed, stop, keys,
                   file, row, df0, lookups, writes, writeFailed>>

NextFailures ==
    \/ Visit
    \/ SearchGoogle
    \/ ExtractEmail
    \/ AutoSave
    \/ FinalSave
    \/ EnrichInterruptPropagates
    \/ InterruptInExtract
    \/ InterruptSave
    \/ EnrichClose
    \/ LocatorRaises
    \/ SearchGoogleRaises
    \/ SearchFailed
    \/ ExtractEmailRaises
    \/ ExtractFailed

SpecFailures == InitFailures /\ [][NextFailures]_vars

(***************************************************************************)
(* Strings of the lookups. A string is the sequence of its pieces, cut so   *)
(* that every substring the code tests for is a run of whole pieces.        *)
(***************************************************************************)
\* python "sub in s"
Contains(s, sub) ==
    \E i \in 0..(Len(s) - Len(sub)) : SubSeq(s, i + 1, i + Len(sub)) = sub

\* python s.split(sep)[0]: what comes before the first sep
RECURSIVE SplitFirst(_, _)
SplitFirst(s, sep) ==
    IF s = <<>> \/ Head(s) = sep THEN <<>>
    ELSE <<Head(s)>> \o SplitFirst(Tail(s), sep)

\* python s.count(piece)
Count(s, piece) == Cardinality({ i \in 1..Len(s) : s[i] = piece })

\* python s.replace(piece, '')
RECURSIVE Remove(_, _)
Remove(s, piece) ==
    IF s = <<>> THEN <<>>
    ELSE IF Head(s) = piece THEN Remove(Tail(s), piece)
    ELSE <<Head(s)>> \o Remove(Tail(s), piece)

\* the collector's variables when the collector is not what is run
NoCollector ==
    /\ max_results = 0
    /\ max_pages = 0
    /\ results = <<>>
    /\ current_page = 1
    /\ sel = 1
    /\ listings = 0
    /\ idx = 0
    /\ business_name = Unknown
    /\ next_button_found = FALSE
    /\ saved = <<>>
    /\ savedOnce = FALSE
    /\ iterations = 0
    /\ clickedAtLimit = FALSE
    /\ urlUnchanged = FALSE
    /\ stop = ""
    /\ interrupts = 0
    /\ swallowed = FALSE

(***************************************************************************)
(* FacebookEmailScraper.search_google, from the result links on.           *)
(***************************************************************************)
\* links the result page can carry
MaxLinks == 3

\* search_google returns None
NoUrl == <<>>

HttpsWww == <<"https:", "/", "/", "www.">>

\* a profile by its name, the same with tracking parameters, a "pages" and a "pg"
\* address, a video address, and a profile reached through a share link
HrefProfile == HttpsWww \o <<"facebook.com", "/", "BizName">>
HrefTracked == HttpsWww \o <<"facebook.com", "/", "BizName", "?", "ref=", "page", "&", "sk=", "about">>
HrefPages == HttpsWww \o <<"facebook.com", "/", "pages", "/", "BizName", "/", "123">>
HrefPg == HttpsWww \o <<"facebook.com", "/", "pg", "/", "BizName">>
HrefWatch == HttpsWww \o <<"facebook.com", "/", "watch", "/", "?", "v=", "123">>

Hrefs == {HrefProfile, HrefTracked, HrefPages, HrefPg, HrefWatch}

\* ['share', 'comment', 'like', 'watch', 'video']
Blocklist == {<<"share">>, <<"comment">>, <<"like">>, <<"watch">>, <<"video">>}

\* "any(x in href for x in [...])"
Blocklisted(href) == \E x \in Blocklist : Contains(href, x)

\* "href.split('&')[0].split('?')[0]"
WithoutQuery(href) == SplitFirst(SplitFirst(href, "&"), "?")

\* "for link in facebook_links:" - the URL the loop returns, NoUrl when it falls through
RECURSIVE LinkLoop(_)
LinkLoop(links) ==
    IF links = <<>> THEN NoUrl
    ELSE LET href == Head(links)
             url == WithoutQuery(href)
         IN  IF href = <<>> \/ ~Contains(href, <<"facebook.com">>) THEN LinkLoop(Tail(links))
             ELSE IF Blocklisted(href) THEN LinkLoop(Tail(links))
             ELSE IF ~Contains(href, <<"facebook.com", "/">>) THEN LinkLoop(Tail(links))
             ELSE IF \/ Contains(url, <<"facebook.com", "/", "pages">>)
                     \/ Contains(url, <<"facebook.com", "/", "pg">>)
                  THEN url
             ELSE IF Count(url, "/") >= 3 THEN url
             ELSE LinkLoop(Tail(links))

\* the loop, then "if facebook_links: ... return href.split('&')[0].split('?')[0]",
\* then "return None" (also when the wait for a link times out: no link at all)
FacebookUrlOf(links) ==
    IF LinkLoop(links) # NoUrl THEN LinkLoop(links)
    ELSE IF links # <<>> /\ Head(links) # <<>> THEN WithoutQuery(Head(links))
    ELSE NoUrl

\* search_google after the query was submitted, on a result page with these links
InitSearch ==
    /\ pc = "g_links"
    /\ NoCollector
    /\ NoDriver
    /\ NoListingScope
    /\ NoProgram
    /\ NoPhone
    /\ NoPages
    /\ facebook_links \in UNION { [1..n -> Hrefs] : n \in 0..MaxLinks }
    /\ facebook_url = NoUrl
    /\ NoScan

\* "# Look for Facebook results" up to the return
PickFacebookLink ==
    /\ pc = "g_links"
    /\ facebook_url' = FacebookUrlOf(facebook_links)
    /\ pc' = "g_returned"
    /\ UNCHANGED <<facebook_links, nvars, xvars, mvars, hvars, rvars, args, results, locals, table, observed,
                   stop, keys, evars>>

NextSearch == PickFacebookLink

SpecSearch == InitSearch /\ [][NextSearch]_vars

(***************************************************************************)
(* FacebookEmailScraper.extract_email_from_facebook, from the loaded       *)
(* profile page on.                                                        *)
(***************************************************************************)
\* len(email_selectors)
NumEmailSelectors == 6

\* e-mail selectors that match an element or raise, on one profile page
MaxMatched == 2

\* addresses in the markup of one profile page
MaxAddresses == 3

\* the "NaN" extract_email_from_facebook returns
NaNText == <<"NaN">>

\* pieces the character classes of the e-mail pattern accept before and after "@"
LocalPieces == {"info", "owner", "support", "customer", "-team", "noreply"}
DomainPieces == {"example.org", "biz.com", "facebook.com"}

\* the end of the run of local pieces that starts at i (i - 1 when there is none)
RECURSIVE LocalRunEnd(_, _)
LocalRunEnd(s, i) ==
    IF i <= Len(s) /\ s[i] \in LocalPieces THEN LocalRunEnd(s, i + 1) ELSE i - 1

\* the pattern [a-zA-Z0-9._%+-]+@[a-zA-Z0-9.-]+\.[a-zA-Z]{2,} matches at the head of s
MatchesAtHead(s) ==
    LET j == LocalRunEnd(s, 1)
    IN  j >= 1 /\ j + 2 <= Len(s) /\ s[j + 1] = "@" /\ s[j + 2] \in DomainPieces

\* re.findall(pattern, s): the matches from left to right, not overlapping
RECURSIVE FindAll(_)
FindAll(s) ==
    IF s = <<>> THEN <<>>
    ELSE IF MatchesAtHead(s)
         THEN LET j == LocalRunEnd(s, 1)
              IN  <<SubSeq(s, 1, j + 2)>> \o FindAll(SubSeq(s, j + 3, Len(s)))
         ELSE FindAll(Tail(s))

\* _extract_email_regex(text): re.search, the first match or None (<<>>)
ExtractEmailRegex(text) ==
    IF FindAll(text) = <<>> THEN <<>> ELSE FindAll(text)[1]

\* the mail-link target kept whole, query string included
MailtoAddressWithQuery(href) == Strip(Remove(href, "mailto:"))

\* "href.replace('mailto:', '').split('?')[0].strip()"
MailtoAddress(href) == Strip(SplitFirst(Remove(href, "mailto:"), "?"))

\* elements a selector can match: a mail link, a text that shows an address, and a
\* mail link whose text has an "@" but no address
MailLink ==
    [text |-> <<"Email", " ", "us">>,
     href |-> <<"mailto:", "owner", "@", "biz.com", "?", "subject=", "Hi">>]
TextEmail ==
    [text |-> <<" ", "Contact:", " ", "info", "@", "example.org", "\n">>, href |-> <<>>]
HandleLink ==
    [text |-> <<"@", "bizhandle">>, href |-> <<"mailto:", "owner", "@", "biz.com">>]
NoReplyText ==
    [text |-> <<"noreply", "@", "biz.com">>, href |-> <<>>]
SupportLink ==
    [text |-> <<"Help">>, href |-> <<"mailto:", "support", "@", "facebook.com">>]

\* find_elements for one selector: nothing, an exception, or one element
NothingFound == [raises |-> FALSE, found |-> <<>>]
SelectorOutcomes ==
    { NothingFound, [raises |-> TRUE, found |-> <<>>] } \cup
    { [raises |-> FALSE, found |-> <<e>>] :
        e \in {MailLink, TextEmail, HandleLink, NoReplyText, SupportLink} }

\* the profile pages: what each of the six selectors gives
ProfilePages ==
    { p \in [1..NumEmailSelectors -> SelectorOutcomes] :
        Cardinality({ k \in 1..NumEmailSelectors : p[k] # NothingFound }) <= MaxMatched }

\* addresses the markup can contain
Addresses ==
    { <<"info", "@", "example.org">>, <<"support", "@", "facebook.com">>,
      <<"customer", "support", "@", "biz.com">>, <<"support", "-team", "@", "biz.com">>,
      <<"noreply", "@", "biz.com">> }

\* the markup that shows the addresses as in order, each after a tag
RECURSIVE Markup(_)
Markup(as) ==
    IF as = <<>> THEN <<"</html>">>
    ELSE <<"<p>">> \o Head(as) \o Markup(Tail(as))

PageSources == { Markup(as) : as \in UNION { [1..n -> Addresses] : n \in 0..MaxAddresses } }

\* no address from this element
NoHit == [email |-> <<>>, via |-> ""]

\* the body of "for element in elements:" for one element
ElementEmail(e) ==
    LET text == Strip(e.text)
        email == IF Contains(text, <<"@">>) THEN ExtractEmailRegex(text) ELSE <<>>
        target == MailtoAddress(e.href)
    IN  IF email # <<>> THEN [email |-> email, via |-> "text"]
        ELSE IF /\ Contains(e.href, <<"mailto:">>)
                /\ target # <<>>
                /\ Contains(target, <<"@">>)
             THEN [email |-> target, via |-> "href"]
        ELSE NoHit

\* "for element in elements:" - the first element that gives an address
RECURSIVE WalkElements(_)
WalkElements(es) ==
    IF es = <<>> THEN NoHit
    ELSE IF ElementEmail(Head(es)) # NoHit THEN ElementEmail(Head(es))
    ELSE WalkElements(Tail(es))

\* "any(x in e for x in ['facebook.com', 'support@', 'noreply', 'no-reply', 'notification'])"
IsNonContact(e) ==
    \E x \in { <<"facebook.com">>, <<"support", "@">>, <<"noreply">>, <<"no-reply">>,
                <<"notification">> } : Contains(e, x)

\* "valid_emails = [e for e in emails if not any(...)]"
ValidEmails(emails) == SelectSeq(emails, LAMBDA e : ~IsNonContact(e))

\* extract_email_from_facebook after driver.get, on a page with these elements
InitExtract ==
    /\ pc = "x_chain"
    /\ NoCollector
    /\ NoDriver
    /\ NoListingScope
    /\ NoProgram
    /\ NoPhone
    /\ NoPages
    /\ NoLookup
    /\ elements \in ProfilePages
    /\ page_source = <<>>
    /\ returned = <<>>
    /\ via = ""

\* "for by, selector in email_selectors:" - one selector; an exception inside the
\* try goes to the next selector ("except: continue")
EmailSelector ==
    /\ pc = "x_chain"
    /\ LET hit == IF elements[sel].raises THEN NoHit ELSE WalkElements(elements[sel].found)
       IN  IF hit # NoHit
           THEN /\ returned' = hit.email
                /\ via' = hit.via
                /\ pc' = "x_returned"
                /\ sel' = 1
           ELSE /\ pc' = IF sel = NumEmailSelectors THEN "x_regex" ELSE "x_chain"
                /\ sel' = IF sel = NumEmailSelectors THEN 1 ELSE sel + 1
                /\ UNCHANGED <<returned, via>>
    /\ UNCHANGED <<elements, page_source, nvars, gvars, mvars, hvars, rvars, args, results, current_page,
                   listings, idx, business_name, next_button_found, table, observed, stop,
                   keys, evars>>

\* "page_html = self.driver.page_source" and the pattern over the whole markup
RegexScan ==
    /\ pc = "x_regex"
    /\ \E src \in PageSources :
          /\ page_source' = src
          /\ LET valid_emails == ValidEmails(FindAll(src))
             IN  IF valid_emails # <<>>
                 THEN returned' = valid_emails[1] /\ via' = "regex"
                 ELSE returned' = NaNText /\ via' = "none"
    /\ pc' = "x_returned"
    /\ UNCHANGED <<elements, nvars, gvars, mvars, hvars, rvars, args, results, locals, table, observed, stop,
                   keys, evars>>

\* reading page_source raises: "except Exception as e: ... return "NaN""
ExtractRaises ==
    /\ pc = "x_regex"
    /\ returned' = NaNText
    /\ via' = "error"
    /\ pc' = "x_returned"
    /\ UNCHANGED <<elements, page_source, nvars, gvars, mvars, hvars, rvars, args, results, locals, table,
                   observed, stop, keys, evars>>

NextExtract ==
    \/ EmailSelector
    \/ RegexScan
    \/ ExtractRaises

SpecExtract == InitExtract /\ [][NextExtract]_vars

(***************************************************************************)
(* The three scripts from start to exit: main of YP_scraper.py, main of    *)
(* unified_scraper.py, process_excel_file of facebook.py.  extract_listings *)
(* and the enrichment loop are single steps here; what is followed is the  *)
(* browser sessions, the search failure and the hand-over to phase 2.      *)
(***************************************************************************)
Programs == {"yp", "facebook", "unified"}

\* what perform_search can raise to its own handlers
SearchFailures == {"TimeoutException", "WebDriverException"}

\* the record a listing yields, as main sees it
SomeRecord == [name |-> <<"A">>, phone |-> NotAvailable]

\* results with n records
RecordsOf(n) == [i \in 1..n |-> SomeRecord]

\* the file name save_to_excel builds
FileName == "YellowPages.xlsx"

\* the handlers of perform_search: whether search_error.png is written before "raise";
\* in YP_scraper.py driver.save_screenshot follows the driver's current_url (and title)
CapturesScreenshot(prog, driverAnswers) ==
    IF prog = "yp" THEN driverAnswers ELSE FALSE

\* what save_to_excel returns: the name, or None ("") for no records or a failed write
SaveToExcelName(res, ok) ==
    IF SaveToExcel(res, ok) THEN FileName ELSE ""

\* the sessions that are open
OpenSessions == { b \in DOMAIN browsers : browsers[b] = "open" }

\* everything the scripts' own steps leave alone
notmain == <<args, locals, table, observed, swallowed, evars, nvars, gvars, xvars,
             hvars, rvars>>

InitScripts ==
    /\ program \in Programs
    /\ pc = IF program = "facebook" THEN "p_read" ELSE "m_start"
    /\ browsers = [b \in {"yp", "fb"} |-> "none"]
    /\ excel_file = ""
    /\ screenshot = FALSE
    /\ failure = ""
    /\ phase2 = FALSE
    /\ NoCollector
    /\ NoDriver
    /\ NoListingScope
    /\ NoLookup
    /\ NoScan
    /\ NoPhone
    /\ NoPages

\* "scraper = YellowPagesScraper()": the browser starts, or uc.Chrome raises
OpenCollector ==
    /\ pc = "m_start"
    /\ \E started \in BOOLEAN :
          IF started
          THEN /\ browsers' = [browsers EXCEPT !["yp"] = "open"]
               /\ pc' = "m_navigate"
          ELSE /\ browsers' = browsers
               /\ pc' = "m_fatal"
    /\ UNCHANGED <<program, excel_file, screenshot, failure, phase2, results, stop,
                   interrupts, notmain>>

\* "scraper.navigate_to_site()": driver.get returns or raises
NavigateToSite ==
    /\ pc = "m_navigate"
    /\ \E loaded \in BOOLEAN : pc' = IF loaded THEN "m_search" ELSE "m_fatal"
    /\ UNCHANGED <<mvars, results, stop, interrupts, notmain>>

\* "scraper.perform_search(job_type, location)" returns
PerformSearch ==
    /\ pc = "m_search"
    /\ pc' = "m_extract"
    /\ UNCHANGED <<mvars, results, stop, interrupts, notmain>>

\* perform_search raises: its handler runs and re-raises to main
PerformSearchRaises ==
    /\ pc = "m_search"
    /\ \E f \in SearchFailures, driverAnswers \in BOOLEAN :
          /\ failure' = f
          /\ screenshot' = CapturesScreenshot(program, driverAnswers)
    /\ pc' = "m_fatal"
    /\ UNCHANGED <<program, browsers, excel_file, phase2, results, stop, interrupts,
                   notmain>>

\* "results = scraper.extract_listings(...)": it returns its records on every branch, its
\* own handlers included ("except KeyboardInterrupt" and "except Exception": return results)
ExtractListings ==
    /\ pc = "m_extract"
    /\ \E n \in 0..MaxRecords, how \in {"no_next", "interrupt", "error"} :
          /\ how = "interrupt" => interrupts < MaxInterrupts
          /\ results' = RecordsOf(n)
          /\ stop' = how
          /\ interrupts' = IF how = "interrupt" THEN interrupts + 1 ELSE interrupts
    /\ pc' = "m_save"
    /\ UNCHANGED <<mvars, notmain>>

\* "if results: [excel_file =] save_to_excel(...)"; "else: ... return" in unified_scraper.py
SaveResults ==
    /\ pc = "m_save"
    /\ \E ok \in BOOLEAN :
          excel_file' = IF program = "unified"
                        THEN SaveToExcelName(results, ok)
                        ELSE excel_file
    /\ pc' = IF program = "unified" /\ results = <<>>
             THEN "m_finally_return"
             ELSE "m_finally"
    /\ UNCHANGED <<program, browsers, screenshot, failure, phase2, results, stop,
                   interrupts, notmain>>

\* Ctrl+C in main's try outside extract_listings: "except KeyboardInterrupt:" saves
\* what main holds in results and, in unified_scraper.py, returns
MainInterrupted ==
    /\ pc \in {"m_navigate", "m_search", "m_save"}
    /\ interrupts < MaxInterrupts
    /\ interrupts' = interrupts + 1
    /\ \E ok \in BOOLEAN :
          excel_file' = IF program = "unified"
                        THEN SaveToExcelName(results, ok)
                        ELSE excel_file
    /\ pc' = "m_finally_return"
    /\ UNCHANGED <<program, browsers, screenshot, failure, phase2, results, stop,
                   notmain>>

\* "except Exception as e:" of main: FATAL ERROR, and "return" in unified_scraper.py
MainFatal ==
    /\ pc = "m_fatal"
    /\ pc' = "m_finally_return"
    /\ UNCHANGED <<mvars, results, stop, interrupts, notmain>>

\* "finally: if scraper: ... time.sleep(..); scraper.close()", then what follows the try
CloseCollector ==
    /\ pc \in {"m_finally", "m_finally_return"}
    /\ browsers' = IF browsers["yp"] = "open"
                   THEN [browsers EXCEPT !["yp"] = "closed"]
                   ELSE browsers
    /\ pc' = IF program = "unified" /\ pc = "m_finally" THEN "m_phase2" ELSE "m_exit"
    /\ UNCHANGED <<program, excel_file, screenshot, failure, phase2, results, stop,
                   interrupts, notmain>>

\* Ctrl+C during the time.sleep of the finally block: it leaves main before close()
InterruptInFinally ==
    /\ pc \in {"m_finally", "m_finally_return"}
    /\ browsers["yp"] = "open"
    /\ interrupts < MaxInterrupts
    /\ interrupts' = interrupts + 1
    /\ pc' = "m_exit"
    /\ UNCHANGED <<mvars, results, stop, notmain>>

\* "if excel_file: process_excel_for_emails(excel_file)"
StartPhase2 ==
    /\ pc = "m_phase2"
    /\ phase2' = (excel_file # "")
    /\ pc' = IF excel_file # "" THEN "p_read" ELSE "m_exit"
    /\ UNCHANGED <<program, browsers, excel_file, screenshot, failure, results, stop,
                   interrupts, notmain>>

\* process_excel_file up to the scraper: a missing file, a failed read or a table
\* without 'Business Name' returns before a browser is started
ReadTable ==
    /\ pc = "p_read"
    /\ \E usable \in BOOLEAN : pc' = IF usable THEN "p_open" ELSE "m_exit"
    /\ UNCHANGED <<mvars, results, stop, interrupts, notmain>>

\* "scraper = FacebookEmailScraper()": the browser starts, or uc.Chrome raises
OpenEnricher ==
    /\ pc = "p_open"
    /\ \E started \in BOOLEAN :
          IF started
          THEN /\ browsers' = [browsers EXCEPT !["fb"] = "open"]
               /\ pc' = "p_loop"
          ELSE /\ browsers' = browsers
               /\ pc' = "m_exit"
    /\ UNCHANGED <<program, excel_file, screenshot, failure, phase2, results, stop,
                   interrupts, notmain>>

\* the try block of process_excel_file: it completes, an exception leaves it (a failed
\* final save, a lookup's locator) or Ctrl+C is handled; all three reach the finally
EnrichTable ==
    /\ pc = "p_loop"
    /\ \E how \in {"complete", "exception", "interrupt"} :
          /\ how = "interrupt" => interrupts < MaxInterrupts
          /\ interrupts' = IF how = "interrupt" THEN interrupts + 1 ELSE interrupts
    /\ pc' = "p_finally"
    /\ UNCHANGED <<mvars, results, stop, notmain>>

\* "finally: scraper.close()"
CloseEnricher ==
    /\ pc = "p_finally"
    /\ browsers' = [browsers EXCEPT !["fb"] = "closed"]
    /\ pc' = "m_exit"
    /\ UNCHANGED <<program, excel_file, screenshot, failure, phase2, results, stop,
                   interrupts, notmain>>

NextScripts ==
    \/ OpenCollector
    \/ NavigateToSite
    \/ PerformSearch
    \/ PerformSearchRaises
    \/ ExtractListings
    \/ SaveResults
    \/ MainInterrupted
    \/ MainFatal
    \/ CloseCollector
    \/ InterruptInFinally
    \/ StartPhase2
    \/ ReadTable
    \/ OpenEnricher
    \/ EnrichTable
    \/ CloseEnricher

SpecScripts == InitScripts /\ [][NextScripts]_vars

(***************************************************************************)
(* The phone strategies of extract_listings on one listing element.        *)
(* Texts are sequences of characters; in a link target "tel:" and "+1" are *)
(* one piece each, in markup a tag or a word without digits is one piece.  *)
(***************************************************************************)
\* tel links one listing can carry
MaxTelLinks == 2

\* phone selectors that match an element or raise, on one listing
MaxPhoneMatched == 2

\* len(phone_selectors)
NumPhoneSelectors == 6

\* "len(phone_text) >= 10"
MinPhoneLength == 10

\* the phone_number a strategy has not replaced, as a text
NotAvailableText == <<"Not Available">>

Digits == {"0", "1", "2", "3", "4", "5", "6", "7", "8", "9"}

\* [-.\s] of phone_pattern
Separators == {"-", "."} \cup Whitespace

\* the length of the run without whitespace a text starts with
RECURSIVE WordEnd(_)
WordEnd(t) ==
    IF t = <<>> \/ Head(t) \in Whitespace THEN 0 ELSE 1 + WordEnd(Tail(t))

\* ' '.join(phone_text.split()): the words of the text with one space between them
RECURSIVE Collapse(_)
Collapse(t) ==
    LET s == LStrip(t)
    IN  IF s = <<>> THEN <<>>
        ELSE LET n == WordEnd(s)
                 rest == Collapse(SubSeq(s, n + 1, Len(s)))
             IN  SubSeq(s, 1, n) \o (IF rest = <<>> THEN <<>> ELSE <<" ">> \o rest)

\* the test with the first-character check left out: any text that is not empty
LooksLikePhoneAnyText(t) ==
    t # <<>>

\* "if phone_text and (phone_text[0].isdigit() or phone_text.startswith('('))"
LooksLikePhone(t) ==
    t # <<>> /\ (t[1] \in Digits \/ t[1] = "(")

\* texts of the elements a phone selector can match
PhoneNumberText == <<" ", "(", "5", "5", "5", ")", "\n", " ", "1", "2", "3", "-", "4", "5", "6", "7", "\n">>
LabelText == <<"P", "h", "o", "n", "e", ":">>

\* what find_elements gives for one phone selector: it raises, or the elements' texts
NoCandidates == [raises |-> FALSE, texts |-> <<>>]
CandidateFinds ==
    { [raises |-> TRUE, texts |-> <<>>],
      NoCandidates,
      [raises |-> FALSE, texts |-> <<LabelText>>],
      [raises |-> FALSE, texts |-> <<PhoneNumberText>>],
      [raises |-> FALSE, texts |-> <<LabelText, PhoneNumberText>>] }

\* what the six phone selectors find in one listing
CandidateScopes ==
    { c \in [1..NumPhoneSelectors -> CandidateFinds] :
         Cardinality({ k \in 1..NumPhoneSelectors : c[k] # NoCandidates }) <= MaxPhoneMatched }

\* the inner loop of method 1: the first element whose collapsed text looks like a phone
RECURSIVE FirstPhoneText(_)
FirstPhoneText(texts) ==
    IF texts = <<>> THEN [found |-> FALSE, value |-> <<>>]
    ELSE LET phone_text == Collapse(Strip(Head(texts)))
         IN  IF LooksLikePhone(phone_text)
             THEN [found |-> TRUE, value |-> phone_text]
             ELSE FirstPhoneText(Tail(texts))

\* method 1 from selector k on: a selector that raises or accepts nothing is passed over
RECURSIVE CssWalk(_, _)
CssWalk(css, k) ==
    IF k > NumPhoneSelectors THEN [found |-> FALSE, value |-> <<>>]
    ELSE IF css[k].raises THEN CssWalk(css, k + 1)
    ELSE LET r == FirstPhoneText(css[k].texts)
         IN  IF r.found THEN r ELSE CssWalk(css, k + 1)

\* tel links: the visible text and the target; "stale" is a link whose read raises
TelHref == <<"tel:", "+1", "5", "5", "5", "1", "2", "3", "4", "5", "6", "7">>
ShortHref == <<"tel:", "9", "1", "1">>
TelLinks ==
    { [text |-> <<>>, href |-> TelHref, stale |-> FALSE],
      [text |-> <<>>, href |-> ShortHref, stale |-> FALSE],
      [text |-> <<"C", "a", "l", "l">>, href |-> TelHref, stale |-> FALSE],
      [text |-> <<" ", "5", "5", "5", "-", "9", "8", "7", "-", "6", "5", "4", "3", " ">>,
       href |-> TelHref, stale |-> FALSE],
      [text |-> <<>>, href |-> <<>>, stale |-> TRUE] }

TelLinkLists == UNION { [1..n -> TelLinks] : n \in 0..MaxTelLinks }

\* "href.replace('tel:', '').replace('+1', '').strip()"
ParseHref(href) == Strip(Remove(Remove(href, "tel:"), "+1"))

\* phone_text of one link: the visible text, the parsed target only when that is empty
LinkPhoneText(link) ==
    IF Strip(link.text) # <<>> THEN Strip(link.text) ELSE ParseHref(link.href)

\* "if phone_text and len(phone_text) >= 10"
LongEnough(t) == t # <<>> /\ Len(t) >= MinPhoneLength

\* method 2: the first link whose phone_text is long enough; a read that raises ends it
RECURSIVE TelWalk(_)
TelWalk(links) ==
    IF links = <<>> THEN [found |-> FALSE, value |-> <<>>]
    ELSE IF Head(links).stale THEN [found |-> FALSE, value |-> <<>>]
    ELSE IF LongEnough(LinkPhoneText(Head(links)))
         THEN [found |-> TRUE, value |-> LinkPhoneText(Head(links))]
         ELSE TelWalk(Tail(links))

\* 1 when the character at position i is one of set, else 0: an optional part of the pattern
Optional(s, i, set) == IF i <= Len(s) /\ s[i] \in set THEN 1 ELSE 0

\* \d{n} at position i
DigitsAt(s, i, n) == i + n - 1 <= Len(s) /\ \A j \in i..(i + n - 1) : s[j] \in Digits

\* phone_pattern r'\(?\d{3}\)?[-.\s]?\d{3}[-.\s]?\d{4}' at position i: the position after
\* the match, 0 when there is none
MatchEnd(s, i) ==
    LET area == i + Optional(s, i, {"("})
        close == area + 3
        first == close + Optional(s, close, {")"})
        prefix == first + Optional(s, first, Separators)
        second == prefix + 3
        line == second + Optional(s, second, Separators)
    IN  IF DigitsAt(s, area, 3) /\ DigitsAt(s, prefix, 3) /\ DigitsAt(s, line, 4)
        THEN line + 4
        ELSE 0

\* re.findall(phone_pattern, listing_html) and "if matches: matches[0]"
FirstPhoneMatch(s) ==
    LET starts == { i \in 1..Len(s) : MatchEnd(s, i) > 0 }
    IN  IF starts = {} THEN [found |-> FALSE, value |-> <<>>]
        ELSE LET i == CHOOSE k \in starts : \A j \in starts : k <= j
             IN  [found |-> TRUE, value |-> SubSeq(s, i, MatchEnd(s, i) - 1)]

\* innerHTML of a listing: the read raises, or the markup
ListingMarkups ==
    { [raises |-> TRUE, html |-> <<>>],
      [raises |-> FALSE, html |-> <<"<div>", "no phone", "</div>">>],
      [raises |-> FALSE,
       html |-> <<"<span>", "5", "5", "5", ".", "1", "2", "3", ".", "4", "5", "6", "7",
                  "</span>">>],
      [raises |-> FALSE,
       html |-> <<"<a href='tel:+", "1", "5", "5", "5", "1", "2", "3", "4", "5", "6", "7",
                  "'>Call</a>">>] }

\* method 3: a read that raises gives nothing
RegexWalk(markup) ==
    IF markup.raises THEN [found |-> FALSE, value |-> <<>>]
    ELSE FirstPhoneMatch(markup.html)

NoMarkup == [raises |-> FALSE, html |-> <<>>]

\* extract_listings after the name check of a listing: phone_number = "Not Available"
InitPhone ==
    /\ pc = "h_css"
    /\ phone_scope \in { [css |-> c, links |-> <<>>, html |-> NoMarkup] :
                            c \in CandidateScopes }
    /\ phone_number = NotAvailableText
    /\ phone_found = FALSE
    /\ strategies = <<>>
    /\ NoCollector
    /\ NoDriver
    /\ NoListingScope
    /\ NoLookup
    /\ NoScan
    /\ NoProgram
    /\ NoPages

\* "# Method 1: Direct phone text"
CssCandidates ==
    /\ pc = "h_css"
    /\ LET r == CssWalk(phone_scope.css, 1)
       IN  /\ phone_number' = IF r.found THEN r.value ELSE phone_number
           /\ phone_found' = r.found
    /\ strategies' = Append(strategies, "css")
    /\ pc' = "h_links"
    /\ UNCHANGED <<phone_scope, nvars, gvars, xvars, mvars, rvars, evars, args, results,
                   locals, table, observed, stop, keys>>

\* "# Method 2: Look for phone links" under "if not phone_found:"
TelephoneLinks ==
    /\ pc = "h_links"
    /\ IF phone_found
       THEN UNCHANGED <<phone_scope, phone_number, phone_found, strategies>>
       ELSE \E links \in TelLinkLists :
               LET r == TelWalk(links)
               IN  /\ phone_scope' = [phone_scope EXCEPT !.links = links]
                   /\ phone_number' = IF r.found THEN r.value ELSE phone_number
                   /\ phone_found' = r.found
                   /\ strategies' = Append(strategies, "links")
    /\ pc' = "h_regex"
    /\ UNCHANGED <<nvars, gvars, xvars, mvars, rvars, evars, args, results, locals, table,
                   observed, stop, keys>>

\* "# Method 3: Regex search in HTML" under "if not phone_found:"
RegexOverMarkup ==
    /\ pc = "h_regex"
    /\ IF phone_found
       THEN UNCHANGED <<phone_scope, phone_number, phone_found, strategies>>
       ELSE \E markup \in ListingMarkups :
               LET r == RegexWalk(markup)
               IN  /\ phone_scope' = [phone_scope EXCEPT !.html = markup]
                   /\ phone_number' = IF r.found THEN r.value ELSE phone_number
                   /\ phone_found' = r.found
                   /\ strategies' = Append(strategies, "regex")
    /\ pc' = "h_done"
    /\ UNCHANGED <<nvars, gvars, xvars, mvars, rvars, evars, args, results, locals, table,
                   observed, stop, keys>>

NextPhone ==
    \/ CssCandidates
    \/ TelephoneLinks
    \/ RegexOverMarkup

SpecPhone == InitPhone /\ [][NextPhone]_vars

(***************************************************************************)
(* extract_listings of YP_scraper.py (without max_results and max_pages)   *)
(* and extract_listings of unified_scraper.py on the same result pages.    *)
(* The site serves one page at a time: first its next controls, then, when *)
(* the page is processed, its listings; both functions get the same page.  *)
(***************************************************************************)
\* result pages the site serves
MaxServedPages == 2

\* next controls the first candidate selector matches on one served page
MaxServedControls == 2

\* a listing element: processing it raises, or the name chain leaves this business_name
\* and the phone strategies this phone_number
RaisingListing == [raises |-> TRUE, name |-> Unknown, phone |-> NotAvailable]
UnnamedListing == [raises |-> FALSE, name |-> Unknown, phone |-> NotAvailable]
ListingA == [raises |-> FALSE, name |-> <<"A">>, phone |-> "(555) 123-4567"]
ListingB == [raises |-> FALSE, name |-> <<"B">>, phone |-> NotAvailable]

\* the listing elements of one served page
ListingLists ==
    { <<>>,
      <<ListingA>>,
      <<ListingB, ListingA>>,
      <<UnnamedListing, ListingB>>,
      <<ListingA, RaisingListing>>,
      <<RaisingListing, UnnamedListing>> }

\* a next control: its class attribute, and whether a click on it changes the URL
EnabledLeading == [class |-> <<"next">>, leads |-> TRUE]
EnabledStaying == [class |-> <<"next">>, leads |-> FALSE]
DisabledControl == [class |-> <<"next", " ", "Disabled">>, leads |-> TRUE]

NextControls == {EnabledLeading, EnabledStaying, DisabledControl}

ControlLists(n) == UNION { [1..m -> NextControls] : m \in 0..n }

\* what the five next selectors find on a page: the first and the third match
\* controls, the second may raise, the others match nothing
NextLayouts ==
    { [k \in 1..NumNextSelectors |->
          IF k = 1 THEN [raises |-> FALSE, controls |-> a]
          ELSE IF k = 2 THEN [raises |-> r, controls |-> <<>>]
          ELSE IF k = 3 THEN [raises |-> FALSE, controls |-> b]
          ELSE [raises |-> FALSE, controls |-> <<>>]] :
      a \in ControlLists(MaxServedControls), r \in BOOLEAN, b \in ControlLists(1) }


\* str.lower() on the pieces of a class attribute
Lower(piece) == IF piece = "Disabled" THEN "disabled" ELSE piece
LowerText(t) == [i \in 1..Len(t) |-> Lower(t[i])]

\* "if 'disabled' in button_class.lower()"
IsDisabled(control) == Contains(LowerText(control.class), <<"disabled">>)

\* a control of the layout that can be clicked leads to another page
Leads(layout) ==
    \E k \in 1..NumNextSelectors : \E i \in 1..Len(layout[k].controls) :
       ~IsDisabled(layout[k].controls[i]) /\ layout[k].controls[i].leads

\* a control as the walk of YP_scraper.py meets it
KindOf(control) ==
    IF IsDisabled(control) THEN "disabled"
    ELSE IF control.leads THEN "new_url" ELSE "same_url"

\* extract_listings at its start: results = [], current_page = 1
Started == [results |-> <<>>, current_page |-> 1, clicks |-> <<>>, stop |-> ""]

\* ---- YP_scraper.py
\* the listing loop: the max_results check, then the record of a named listing
RECURSIVE YPListings(_, _, _)
YPListings(res, ls, limit) ==
    IF ls = <<>> THEN [results |-> res, limited |-> FALSE]
    ELSE IF ResultLimitReached(res, limit) THEN [results |-> res, limited |-> TRUE]
    ELSE IF Head(ls).raises \/ NameMissing(Head(ls).name)
         THEN YPListings(res, Tail(ls), limit)
         ELSE YPListings(Append(res, [name |-> Head(ls).name, phone |-> Head(ls).phone]),
                         Tail(ls), limit)

\* the loop over next_button_selectors from selector k on: the controls clicked, as
\* <<selector, position>>, and next_button_found
RECURSIVE YPSelectors(_, _)
YPSelectors(layout, k) ==
    IF k > NumNextSelectors THEN [clicks |-> <<>>, found |-> FALSE]
    ELSE IF layout[k].raises THEN YPSelectors(layout, k + 1)
    ELSE LET r == WalkButtons([i \in 1..Len(layout[k].controls) |->
                                  KindOf(layout[k].controls[i])])
             mine == [i \in 1..r.clicked |-> <<k, i>>]
             rest == YPSelectors(layout, k + 1)
         IN  IF r.found THEN [clicks |-> mine, found |-> TRUE]
             ELSE [clicks |-> mine \o rest.clicks, found |-> rest.found]

\* one iteration of "while True:" on a page with these listings and next controls
YPPage(st, ls, layout, limit, pages) ==
    IF ls = <<>> THEN [st EXCEPT !.clicks = <<>>, !.stop = "no_listings"]
    ELSE LET l == YPListings(st.results, ls, limit)
             w == YPSelectors(layout, 1)
         IN  IF l.limited
             THEN [st EXCEPT !.results = l.results, !.clicks = <<>>, !.stop = "max_results"]
             ELSE IF PageLimitReached(st.current_page, pages)
             THEN [st EXCEPT !.results = l.results, !.clicks = <<>>, !.stop = "max_pages"]
             ELSE [results |-> l.results,
                   current_page |-> IF w.found THEN st.current_page + 1 ELSE st.current_page,
                   clicks |-> w.clicks,
                   stop |-> IF w.found THEN "" ELSE "no_next"]

\* ---- unified_scraper.py
\* the listing loop: the record of a named listing
RECURSIVE UnifiedListings(_, _)
UnifiedListings(res, ls) ==
    IF ls = <<>> THEN res
    ELSE IF Head(ls).raises \/ Head(ls).name = Unknown
         THEN UnifiedListings(res, Tail(ls))
         ELSE UnifiedListings(Append(res, [name |-> Head(ls).name, phone |-> Head(ls).phone]),
                              Tail(ls))

\* the inner loop with a disabled control passed over instead of ending the loop
RECURSIVE UnifiedWalkButtonsPastDisabled(_)
UnifiedWalkButtonsPastDisabled(controls) ==
    IF controls = <<>> THEN [clicked |-> 0, found |-> FALSE]
    ELSE IF IsDisabled(Head(controls)) THEN UnifiedWalkButtonsPastDisabled(Tail(controls))
    ELSE IF Head(controls).leads THEN [clicked |-> 1, found |-> TRUE]
    ELSE LET r == UnifiedWalkButtonsPastDisabled(Tail(controls))
         IN  [clicked |-> r.clicked + 1, found |-> r.found]

\* "for next_button in next_buttons:": a disabled control ends the loop, any other is
\* clicked, and the loop ends when the URL changed
RECURSIVE UnifiedWalkButtons(_)
UnifiedWalkButtons(controls) ==
    IF controls = <<>> THEN [clicked |-> 0, found |-> FALSE]
    ELSE IF IsDisabled(Head(controls)) THEN [clicked |-> 0, found |-> FALSE]
    ELSE IF Head(controls).leads THEN [clicked |-> 1, found |-> TRUE]
    ELSE LET r == UnifiedWalkButtons(Tail(controls))
         IN  [clicked |-> r.clicked + 1, found |-> r.found]

\* "for next_sel in next_button_selectors:" from selector k on
RECURSIVE UnifiedSelectors(_, _)
UnifiedSelectors(layout, k) ==
    IF k > NumNextSelectors THEN [clicks |-> <<>>, found |-> FALSE]
    ELSE IF layout[k].raises THEN UnifiedSelectors(layout, k + 1)
    ELSE LET r == UnifiedWalkButtons(layout[k].controls)
             mine == [i \in 1..r.clicked |-> <<k, i>>]
             rest == UnifiedSelectors(layout, k + 1)
         IN  IF r.found THEN [clicks |-> mine, found |-> TRUE]
             ELSE [clicks |-> mine \o rest.clicks, found |-> rest.found]

\* one iteration of "while True:" on a page with these listings and next controls
UnifiedPage(st, ls, layout) ==
    IF ls = <<>> THEN [st EXCEPT !.clicks = <<>>, !.stop = "no_listings"]
    ELSE LET w == UnifiedSelectors(layout, 1)
         IN  [results |-> UnifiedListings(st.results, ls),
              current_page |-> IF w.found THEN st.current_page + 1 ELSE st.current_page,
              clicks |-> w.clicks,
              stop |-> IF w.found THEN "" ELSE "no_next"]

InitPages ==
    /\ pc = "r_serve"
    /\ served = <<>>
    /\ yp = Started
    /\ unified = Started
    /\ NoCollector
    /\ NoDriver
    /\ NoListingScope
    /\ NoLookup
    /\ NoScan
    /\ NoProgram
    /\ NoPhone

\* the site answers with a result page; the last page it has carries no control that leads on
ServePage ==
    /\ pc = "r_serve"
    /\ \E layout \in NextLayouts :
          /\ Leads(layout) =>
                (yp.current_page < MaxServedPages /\ unified.current_page < MaxServedPages)
          /\ served' = layout
    /\ pc' = "r_process"
    /\ UNCHANGED <<yp, unified, nvars, gvars, xvars, mvars, hvars, evars, args, results,
                   locals, table, observed, stop, keys>>

\* both functions process the page served, each one that still runs
ProcessPage ==
    /\ pc = "r_process"
    /\ \E ls \in ListingLists :
          /\ yp' = IF yp.stop = "" THEN YPPage(yp, ls, served, 0, 0) ELSE yp
          /\ unified' = IF unified.stop = "" THEN UnifiedPage(unified, ls, served) ELSE unified
    /\ pc' = IF yp'.stop = "" \/ unified'.stop = "" THEN "r_serve" ELSE "r_done"
    /\ UNCHANGED <<served, nvars, gvars, xvars, mvars, hvars, evars, args, results, locals,
                   table, observed, stop, keys>>

NextPages ==
    \/ ServePage
    \/ ProcessPage

SpecPages == InitPages /\ [][NextPages]_vars

(***************************************************************************)
(* Claims about the collector, checked under SpecCollect.                  *)
(***************************************************************************)
\* extract_listings has ended (it returned to main)
CollectionEnded == pc \in {"returned", "finally", "done"}

\* C1: no record of the result list has an empty or whitespace-only Business Name,
\* also when a name selector matched an element whose text strips to "" and no later
\* selector matched.
C1_NoBlankBusinessName ==
    \A i \in 1..Len(results) : Strip(results[i].name) # <<>>

\* C2: when max_results is set, the result list never holds more than max_results
\* records, whatever the number of pages and of listings per page.
C2_AtMostMaxResults ==
    IsSet(max_results) => Len(results) <= max_results

\* the limit stopped a run that had gone over more than one page
C2_Witness ==
    /\ stop = "max_results"
    /\ Len(results) = max_results
    /\ iterations >= 2

\* C3: when max_pages is set, at most max_pages page-extraction iterations are
\* started, and once the max_pages-th one is over no next control is looked up.
C3_AtMostMaxPages ==
    IsSet(max_pages) =>
        /\ iterations <= max_pages
        /\ current_page <= max_pages
        /\ (current_page >= max_pages => pc # "next")

\* the page limit ended a run on its second page
C3_Witness ==
    /\ stop = "max_pages"
    /\ max_pages = 2
    /\ iterations = 2

\* C4: once len(results) has reached max_results no next control is activated,
\* also when the limit is reached on the last listing of a page.
C4_NoNavigationAtLimit == ~clickedAtLimit

\* C9: a Ctrl+C delivered at any point of extract_listings ends the collection, and
\* the records collected so far are what main saves.
C9_InterruptEndsCollection ==
    interrupts > 0 =>
        /\ CollectionEnded
        /\ (pc = "done" /\ savedOnce => saved = results)

\* the positions of extract_listings inside the loop over the listings of a page
ListingPhases == {"listing", "name", "listing_except", "name_check", "phone"}

\* C12: results only grows, by one record at its end for each listing that reaches
\* the append (an equal record already collected does not prevent it), and a record
\* once appended is never changed or removed; the listings are taken page after page
\* and, within a page, element after element, each once.
C12_AppendOnlyInDiscoveryOrder ==
    [][/\ results' # results =>
             /\ pc = "phone"
             /\ Len(results') = Len(results) + 1
             /\ SubSeq(results', 1, Len(results)) = results
             /\ results'[Len(results')].name = business_name
       /\ (pc = "phone" /\ pc' = "listing") =>
             /\ Len(results') = Len(results) + 1
             /\ idx' = idx + 1
       /\ current_page' >= current_page
       /\ (pc \in ListingPhases /\ pc' \in ListingPhases) =>
             /\ current_page' = current_page
             /\ idx' >= idx
       /\ (pc \notin ListingPhases /\ pc' \in ListingPhases) => idx' = 1
      ]_vars

\* the first listing of page 2 gave a record equal to the only record of page 1
C12_Witness ==
    /\ pc = "listing"
    /\ current_page = 2
    /\ idx = 2
    /\ Len(results) = 2
    /\ results[1] = results[2]

\* C13: the listing selectors are tried in order and the first that yields elements
\* gives the listings processed; when all yield none the function stops there with
\* stop reason "no listings": no record is added for the page, no next control is
\* looked up, the page counter stays, and results is returned and stays as it is.
C13_EmptyPageHalts ==
    [][/\ pc = "find_listings" =>
             /\ results' = results
             /\ current_page' = current_page
             /\ pc' \in {"find_listings", "listing", "returned"}
             /\ pc' = "find_listings" => sel' = sel + 1
             /\ pc' = "listing" => listings' > 0 /\ idx' = 1
             /\ pc' = "returned" => sel = NumListingSelectors /\ stop' = "no_listings"
       /\ (stop' = "no_listings" /\ stop = "") => pc = "find_listings"
       /\ stop = "no_listings" =>
             /\ CollectionEnded'
             /\ results' = results
             /\ stop' = stop
      ]_vars

\* page 2 had no listings: the run ended there with the records of page 1
C13_Witness ==
    /\ pc = "done"
    /\ stop = "no_listings"
    /\ iterations = 2
    /\ current_page = 2
    /\ Len(results) >= 1
    /\ saved = results

\* C14: once a click on a next control has left the URL unchanged, pagination is
\* over: the page counter is not incremented and no further page is extracted.
C14_UnchangedUrlTerminates ==
    urlUnchanged => pc # "page_top"

Yielding ==
    { k \in 1..NumNameSelectors :
        scope[k] # Missing /\ Strip(ElementText(k, scope[k])) # <<>> }

\* the first of them in the configured order
FirstYielding == CHOOSE k \in Yielding : \A j \in Yielding : k <= j

\* C11: the name selectors are tried in the configured order; when the chain is over
\* business_name is the trimmed text of the first selector whose element has a
\* non-empty trimmed text, and no selector after that one was tried (all were tried
\* when none has one).
C11_FirstNonEmptyWins ==
    /\ tried = [k \in 1..Len(tried) |-> k]
    /\ pc = "name" => \A k \in 1..Len(tried) : k \notin Yielding
    /\ pc = "name_check" =>
          IF Yielding # {}
          THEN /\ business_name = Strip(ElementText(FirstYielding, scope[FirstYielding]))
               /\ Len(tried) = FirstYielding
          ELSE Len(tried) = NumNameSelectors

\* selector 1 finds nothing, selector 2 a blank text, selectors 3 and 4 a name: the
\* chain stopped at selector 3 with its trimmed text
C11_Witness ==
    /\ pc = "name_check"
    /\ scope[1] = Missing
    /\ scope[2] = "blank"
    /\ scope[3] = "named"
    /\ scope[4] = "named"
    /\ business_name = <<"C">>
    /\ tried = <<1, 2, 3>>

(***************************************************************************)
(* Claims about search_google, checked under SpecSearch.                   *)
(***************************************************************************)
\* a result link on the domain that the blocklist does not exclude
Eligible(href) == Contains(href, <<"facebook.com">>) /\ ~Blocklisted(href)

\* the path of the address starts with the segment "pages" or "pg"
IsPageResource(url) ==
    \/ Contains(url, <<"facebook.com", "/", "pages", "/">>)
    \/ Contains(url, <<"facebook.com", "/", "pg", "/">>)

\* C16: when one of the eligible result links is a "pages" or "pg" address, the URL
\* search_google returns is such an address, wherever that link stands in the results.
C16_PageResourcePreferred ==
    (pc = "g_returned" /\ \E i \in 1..Len(facebook_links) :
                             Eligible(facebook_links[i]) /\ IsPageResource(facebook_links[i]))
        => IsPageResource(facebook_url)

\* C17: a URL returned by search_google never matches the blocklist, also when the
\* fall-back to the first link produced it, and None is returned when the result
\* page has no link on the domain.
C17_BlocklistedNeverReturned ==
    pc = "g_returned" =>
        /\ facebook_url # NoUrl => ~Blocklisted(facebook_url)
        /\ (\A i \in 1..Len(facebook_links) :
               ~Contains(facebook_links[i], <<"facebook.com">>)) => facebook_url = NoUrl

(***************************************************************************)
(* Claims about extract_email_from_facebook, checked under SpecExtract.    *)
(***************************************************************************)
\* the address is on the platform's own domain
OnPlatformDomain(e) == e[Len(e)] = "facebook.com"

\* the address begins with "support", "noreply", "no-reply" or "notification"
BeginsAsNonContact(e) == Head(e) \in {"support", "noreply", "no-reply", "notification"}

\* the rule of the claim for a contact address
IsContact(e) == ~OnPlatformDomain(e) /\ ~BeginsAsNonContact(e)

\* C18: when the regex fallback decides, the address returned is the first match of
\* the markup, in page order, that is not on facebook.com and does not begin with
\* "support", "noreply", "no-reply" or "notification"; "NaN" when no match is such.
C18_FallbackReturnsFirstContact ==
    (pc = "x_returned" /\ via \in {"regex", "none"}) =>
        LET contacts == SelectSeq(FindAll(page_source), IsContact)
        IN  IF contacts # <<>> THEN returned = contacts[1] ELSE returned = NaNText

\* selector k gives an address: it does not raise and one of its elements shows an
\* address in its text or is a mail link
ShowsAddress(e) == ExtractEmailRegex(Strip(e.text)) # <<>>
Gives(k) ==
    /\ ~elements[k].raises
    /\ \E i \in 1..Len(elements[k].found) :
          \/ ShowsAddress(elements[k].found[i])
          \/ Contains(elements[k].found[i].href, <<"mailto:">>)

\* the only addresses of the page are in mail links
OnlyMailLinks ==
    /\ \E k \in 1..NumEmailSelectors : Gives(k)
    /\ \A k \in 1..NumEmailSelectors : \A i \in 1..Len(elements[k].found) :
          ~ShowsAddress(elements[k].found[i])

\* the first selector of the chain that gives an address
FirstGiving ==
    CHOOSE k \in 1..NumEmailSelectors : Gives(k) /\ \A j \in 1..(k - 1) : ~Gives(j)

\* the address of a mail link: what stands between "mailto:" and the query string
BareTarget(e) == SubSeq(e.href, 2, 4)

\* C19: the markup is read and scanned only when no selector of the chain gave an
\* address, and an address the chain gave is returned without the markup being read;
\* on a page whose only address is in a mail link the address returned is the link
\* target without "mailto:" and without the query string.
C19_ChainBeforeRegex ==
    /\ (pc = "x_regex" \/ via \in {"regex", "none", "error"}) =>
          \A k \in 1..NumEmailSelectors : ~Gives(k)
    /\ via \in {"text", "href"} =>
          /\ page_source = <<>>
          /\ \E k \in 1..NumEmailSelectors : Gives(k)
    /\ (pc = "x_returned" /\ OnlyMailLinks) =>
          /\ via = "href"
          /\ returned = BareTarget(elements[FirstGiving].found[1])

\* only the fifth selector matches, a mail link with a subject: its address is returned
C19_Witness ==
    /\ pc = "x_returned"
    /\ elements[5] = [raises |-> FALSE, found |-> <<MailLink>>]
    /\ \A k \in (1..NumEmailSelectors) \ {5} : elements[k] = NothingFound
    /\ via = "href"
    /\ returned = <<"owner", "@", "biz.com">>

\* C26: an address that extract_email_from_facebook returns, whichever step gave it
\* (the text of an element, the target of a mail link or the scan of the markup), is
\* not on facebook.com and does not begin with "support", "noreply", "no-reply" or
\* "notification".
C26_ReturnedAddressIsContact ==
    (pc = "x_returned" /\ via \in {"text", "href", "regex"}) => IsContact(returned)

(***************************************************************************)
(* Claims about the enrichment driver, checked under SpecEnrich (C7 under  *)
(* SpecCadence, C20 and C30 under SpecFailures).                           *)
(***************************************************************************)
\* an Email value that is neither missing nor the sentinel
RealEmail(e) == e \notin {NaN, NaNFloat}

\* the rows of the table read that carry an e-mail / that need a lookup
Prefilled == { i \in 1..Len(df0) : RealEmail(df0[i].email) }
Needy == { i \in 1..Len(df0) : ~RealEmail(df0[i].email) }

\* the enrichment loop is over (interrupt handler, close, exit)
LoopStopped == pc \in {"e_interrupted", "e_close", "e_done"}

\* C5: a row whose Email is already a real address keeps it and gets no lookup (the
\* lookups made never outnumber the rows without address visited so far); on a table
\* in which every row has one, no lookup is made and the table on disk stays equal
\* to the one read.
C5_RowsWithEmailAreSkipped ==
    /\ \A i \in Prefilled : i <= Len(df) /\ df[i].email = df0[i].email
    /\ lookups <= Cardinality({ i \in Needy : i <= row })
    /\ (Needy = {} => lookups = 0 /\ file = ToExcel(df0))

\* a finished run over a fully filled table of several rows, written back once
C5_Witness ==
    /\ pc = "e_done"
    /\ Len(df0) >= 2
    /\ Needy = {}
    /\ lookups = 0
    /\ writes = <<[at |-> Len(df0), kind |-> "final"]>>

\* C6: between two records, fewer than 10 records that got a lookup outcome in this
\* run are not yet written to disk (no write having failed), also when rows are
\* skipped because they already carry an e-mail.
C6_UnsavedBelowSaveEvery ==
    (pc = "e_visit" /\ ~writeFailed) => unsaved < SaveEvery

\* the writes of an undisturbed run over n rows that all need a lookup: one after
\* each multiple of 10, and the final one
ExpectedWrites(n) ==
    [k \in 1..(n \div SaveEvery) |-> [at |-> k * SaveEvery, kind |-> "auto"]]
        \o <<[at |-> n, kind |-> "final"]>>

\* C7: when every record needs a lookup and nothing fails, the table is written after
\* each record whose position is a multiple of 10 (so far, while the loop runs) and
\* exactly once more after the last record.
C7_SaveCadence ==
    (Prefilled = {} /\ ~writeFailed /\ interrupts = 0) =>
        /\ pc = "e_visit" =>
              writes = [k \in 1..((row - 1) \div SaveEvery) |->
                           [at |-> k * SaveEvery, kind |-> "auto"]]
        /\ pc = "e_done" => writes = ExpectedWrites(Len(df0))

\* an undisturbed run over 21 rows: writes after 10 and 20 and the final one
C7_Witness ==
    /\ pc = "e_done"
    /\ Len(df0) = 21
    /\ Prefilled = {}
    /\ ~writeFailed
    /\ interrupts = 0
    /\ writes = <<[at |-> 10, kind |-> "auto"], [at |-> 20, kind |-> "auto"],
                  [at |-> 21, kind |-> "final"]>>

\* C8: a Ctrl+C delivered at any point of the loop stops the loop, and when the
\* process exits the table on disk holds the outcomes of the completed records.
C8_InterruptStopsLoop ==
    interrupts > 0 =>
        /\ LoopStopped
        /\ (pc = "e_done" /\ ~writeFailed => file = ToExcel(df))

\* the lookup of row r is over
RowDone(r) == r < row \/ (r = row /\ pc = "e_autosave")

C10_OnlyEmailChanges ==
    /\ Len(df) = Len(df0)
    /\ Len(file) = Len(df0)
    /\ \A i \in 1..Len(df0) :
          /\ df[i].name = df0[i].name
          /\ df[i].phone = df0[i].phone
          /\ file[i].name = df0[i].name
          /\ file[i].phone = df0[i].phone

\* an interrupted run that had found an e-mail and wrote it to disk
C10_Witness ==
    /\ pc = "e_done"
    /\ interrupts > 0
    /\ \E i \in 1..Len(df) : df[i].email = NewEmail /\ file[i].email = NewEmail

\* the calls of one record: search_google, then extract_email_from_facebook
SearchPhases == {"e_search", "e_search_next", "e_search_failed"}
ExtractPhases == {"e_extract", "e_extract_next", "e_extract_failed"}

\* the rows up to n that need a lookup
NeedyUpTo(n) == Cardinality({ i \in Needy : i <= n })

\* the Email cell has been assigned in this run
Written(e) == e \in {NaN, NewEmail}

\* where the run stands: one search per record without e-mail visited so far, the
\* records before the current one written, the ones after it untouched, and the
\* current one untouched until its lookup is over and written once it is; a run
\* that was not interrupted ends with one search for each record without e-mail
RecordsInOrder ==
    /\ pc \in {"e_visit", "e_final_save"} => lookups = NeedyUpTo(row - 1)
    /\ pc \in SearchPhases \cup ExtractPhases \cup {"e_autosave"} =>
          /\ row \in Needy
          /\ lookups = NeedyUpTo(row)
    /\ \A i \in Needy : i < row => Written(df[i].email)
    /\ \A i \in 1..Len(df) : i > row => df[i] = df0[i]
    /\ pc \in SearchPhases \cup ExtractPhases => df[row] = df0[row]
    /\ pc = "e_autosave" => Written(df[row].email)
    /\ LoopStopped => lookups \in {NeedyUpTo(row - 1), NeedyUpTo(row)}
    /\ (pc = "e_done" /\ interrupts = 0) => lookups = Cardinality(Needy)

\* C30: in one enrichment run the records are visited once each in table order; a
\* record without e-mail gets exactly one search_google call, made when it is
\* visited; extract_email_from_facebook is entered only from a search_google call
\* of the same record that returned a URL, and left only towards the write of the
\* record or the interrupt handler, so at most once; the Email of the record is
\* written before the next record is visited.
C30_OneLookupPerRecordInOrder ==
    [][/\ RecordsInOrder
       /\ RecordsInOrder'
       /\ row' \in {row, row + 1}
       /\ row' = row + 1 =>
             /\ row <= Len(df)
             /\ df' = df
             /\ pc' = "e_visit"
             /\ \/ pc = "e_visit" /\ row \in Prefilled
                \/ pc = "e_autosave" /\ Written(df[row].email)
       /\ lookups' # lookups =>
             /\ lookups' = lookups + 1
             /\ pc = "e_visit"
             /\ pc' = "e_search"
             /\ row' = row
       /\ (pc' \in SearchPhases /\ pc \notin SearchPhases) => pc = "e_visit"
       /\ (pc' \in ExtractPhases /\ pc \notin ExtractPhases) =>
             /\ pc \in SearchPhases
             /\ row' = row
             /\ df' = df
       /\ (pc \in ExtractPhases /\ pc' \notin ExtractPhases) =>
             pc' \in {"e_autosave", "e_interrupted"}
       /\ (pc \in SearchPhases /\ pc' \notin SearchPhases) =>
             pc' \in ExtractPhases \cup {"e_autosave", "e_interrupted"}
      ]_vars

\* a finished run over two records without e-mail: the first got a search without
\* result, the second a search and an extraction that found an e-mail
C30_Witness ==
    /\ pc = "e_done"
    /\ interrupts = 0
    /\ Len(df) = 2
    /\ df0[1].email = NaNFloat
    /\ df[1].email = NaN
    /\ df0[2].email = NaNFloat
    /\ df[2].email = NewEmail
    /\ lookups = 2

C22_SearchErrorLeavesScreenshot ==
    failure # "" => screenshot

\* C28: a script that has ended has no browser session open, whatever the exit path,
\* and at no time are two sessions open: the collection session is closed before the
\* enrichment session is opened.
C28_SessionsClosedOneAtATime ==
    /\ pc = "m_exit" => OpenSessions = {}
    /\ Cardinality(OpenSessions) <= 1
    /\ browsers["fb"] # "none" => browsers["yp"] # "open"

\* C29: in the unified script phase 2 is entered exactly in the runs whose collection
\* returned at least one record and whose save_to_excel returned a file name, and in
\* no run whose collection was ended by a failure of the session or by Ctrl+C.
C29_EnrichmentOnlyAfterCleanCollection ==
    (program = "unified" /\ pc = "m_exit") =>
        /\ phase2 <=> (results # <<>> /\ excel_file # "")
        /\ (failure # "" \/ stop \in {"interrupt", "error"}) => ~phase2

(***************************************************************************)
(* Claims about the phone strategies, checked under SpecPhone.             *)
(***************************************************************************)
\* the order of the strategies: (a) CSS candidates, (b) telephone links, (c) regex
StrategyOrder == <<"css", "links", "regex">>

\* strategy s was run on the listing
Ran(s) == \E i \in 1..Len(strategies) : strategies[i] = s

\* a text that begins with a digit or an opening parenthesis
BeginsAsPhone(t) == t # <<>> /\ (t[1] \in Digits \/ t[1] = "(")

\* a text with no whitespace at its ends and single spaces between its words
IsCollapsed(t) ==
    /\ t = Strip(t)
    /\ \A i \in 1..Len(t) : t[i] \in Whitespace =>
          (t[i] = " " /\ t[i + 1] \notin Whitespace)

\* the candidates of the listing that begin as a phone, as <<selector, element>>
PhoneCandidates ==
    { ke \in (1..NumPhoneSelectors) \X (1..2) :
         /\ ~phone_scope.css[ke[1]].raises
         /\ ke[2] <= Len(phone_scope.css[ke[1]].texts)
         /\ BeginsAsPhone(Collapse(Strip(phone_scope.css[ke[1]].texts[ke[2]]))) }

\* the first of them in selector order, then element order
FirstCandidate ==
    CHOOSE ke \in PhoneCandidates :
       \A other \in PhoneCandidates :
          ke[1] < other[1] \/ (ke[1] = other[1] /\ ke[2] <= other[2])

\* C23: the strategies run in the order (a), (b), (c), a later one only when every
\* earlier one gave nothing; the value recorded is the one of the first strategy that
\* gave one; a value taken by (a) is collapsed and begins with a digit or "("; and
\* "Not Available" is recorded exactly when all three ran and gave nothing.
C23_PhoneStrategyEscalation ==
    /\ \E n \in 0..3 : strategies = SubSeq(StrategyOrder, 1, n)
    /\ Ran("links") => PhoneCandidates = {}
    /\ Ran("regex") => (PhoneCandidates = {} /\ ~TelWalk(phone_scope.links).found)
    /\ pc = "h_done" =>
          /\ PhoneCandidates # {} =>
                /\ strategies = <<"css">>
                /\ phone_number =
                      Collapse(Strip(phone_scope.css[FirstCandidate[1]].texts[FirstCandidate[2]]))
                /\ BeginsAsPhone(phone_number)
                /\ IsCollapsed(phone_number)
          /\ strategies = <<"css">> => PhoneCandidates # {}
          /\ (Ran("links") /\ TelWalk(phone_scope.links).found) =>
                /\ strategies = <<"css", "links">>
                /\ phone_number = TelWalk(phone_scope.links).value
          /\ (Ran("regex") /\ RegexWalk(phone_scope.html).found) =>
                phone_number = RegexWalk(phone_scope.html).value
          /\ phone_number = NotAvailableText <=>
                (strategies = StrategyOrder /\ ~RegexWalk(phone_scope.html).found)

\* a listing whose first selector raises and whose second matches a label, with one tel
\* link too short to be a number: the markup gives the number
C23_Witness ==
    /\ pc = "h_done"
    /\ phone_scope.css[1].raises
    /\ phone_scope.css[2].texts = <<LabelText>>
    /\ Len(phone_scope.links) = 1
    /\ strategies = StrategyOrder
    /\ phone_number = <<"5", "5", "5", ".", "1", "2", "3", ".", "4", "5", "6", "7">>

\* the number a tel link gives when its text is used if it is a number and its target
\* is parsed otherwise
TextOrTarget(link) ==
    IF LongEnough(Strip(link.text)) THEN Strip(link.text) ELSE ParseHref(link.href)

\* C24: in strategy (b) each link gives its visible text when that is a phone number and
\* its parsed target whenever it is not (an empty text, or a text such as a short
\* label); the first link that gives a number this way is the one recorded.
C24_TargetParsedWheneverTextFails ==
    Ran("links") =>
       \A i \in 1..Len(phone_scope.links) :
          ( /\ \A j \in 1..i : ~phone_scope.links[j].stale
            /\ \A j \in 1..(i - 1) : ~LongEnough(TextOrTarget(phone_scope.links[j]))
            /\ LongEnough(TextOrTarget(phone_scope.links[i])) )
          => /\ strategies = <<"css", "links">>
             /\ phone_number = TextOrTarget(phone_scope.links[i])

(***************************************************************************)
(* Claims about the two collectors side by side, checked under SpecPages.  *)
(***************************************************************************)
\* the page served last was processed up to its next controls
WalkedNextControls ==
    /\ pc # "r_process"
    /\ served # <<>>
    /\ yp.stop \in {"", "no_next"}
    /\ unified.stop \in {"", "no_next"}

\* the controls of the page that are not disabled and change the URL when clicked
UsableControls ==
    { ki \in (1..NumNextSelectors) \X (1..MaxServedControls) :
         /\ ~served[ki[1]].raises
         /\ ki[2] <= Len(served[ki[1]].controls)
         /\ ~Contains(LowerText(served[ki[1]].controls[ki[2]].class), <<"disabled">>)
         /\ served[ki[1]].controls[ki[2]].leads }

\* C25: no control whose class attribute contains "disabled" in any letter case is
\* clicked, and a disabled control takes only itself out: whenever the page has a
\* control that is not disabled and changes the URL, under the same or a later
\* selector, the walk advances to the next page.
C25_DisabledOnlyDisqualifiesItself ==
    WalkedNextControls =>
       /\ \A i \in 1..Len(yp.clicks) :
             ~Contains(LowerText(served[yp.clicks[i][1]].controls[yp.clicks[i][2]].class),
                       <<"disabled">>)
       /\ \A i \in 1..Len(unified.clicks) :
             ~Contains(LowerText(served[unified.clicks[i][1]].controls[unified.clicks[i][2]].class),
                       <<"disabled">>)
       /\ UsableControls # {} => (yp.stop = "" /\ unified.stop = "")

\* C27: on the same result pages extract_listings of unified_scraper.py and
\* extract_listings of YP_scraper.py without max_results and max_pages hold the same
\* records in the same order, are on the same page, clicked the same controls and
\* stopped on the same branch.
C27_UnifiedMatchesYP ==
    /\ unified.results = yp.results
    /\ unified.current_page = yp.current_page
    /\ unified.clicks = yp.clicks
    /\ unified.stop = yp.stop

\* both ended on page 2 with records of both pages, after a click on a control that
\* left the URL as it was and with a disabled control under a later selector
C27_Witness ==
    /\ pc = "r_done"
    /\ yp.current_page = 2
    /\ Len(yp.results) = 3
    /\ yp.results[1].name # yp.results[3].name
    /\ yp.clicks = <<<<1, 1>>>>
    /\ served[3].controls = <<DisabledControl>>
    /\ unified.stop = "no_next"

====
